---- MODULE Spec2Model ----
(***************************************************************************)
(* ESP_ATMod: AT command processor for ESP8266.                            *)
(* A model of the serial input loop (ESP_ATMod.ino, loop), the command     *)
(* matcher and the command handlers (command.cpp), the link table and the  *)
(* certificate store.                                                      *)
(*                                                                         *)
(* A byte is a one-character string; NUL and the bytes that have no        *)
(* one-character notation are named tokens.  Buffers are indexed from 0 as *)
(* in the source, through At.                                              *)
(***************************************************************************)
EXTENDS Integers, Sequences, FiniteSets, TLC

\* ------------------------------------------------------------------ bytes

Str2Seq(s) == [i \in 1..Len(s) |-> SubSeq(s, i, i)]

NUL == "NUL"
SOH == "SOH"
HIGH == "0xFF"

Digits == {"0", "1", "2", "3", "4", "5", "6", "7", "8", "9"}
UpperCase == {"A", "B", "C", "D", "E", "F", "G", "H", "I", "J", "K", "L", "M",
              "N", "O", "P", "Q", "R", "S", "T", "U", "V", "W", "X", "Y", "Z"}
LowerCase == {"a", "b", "c", "d", "e", "f", "g", "h", "i", "j", "k", "l", "m",
              "n", "o", "p", "q", "r", "s", "t", "u", "v", "w", "x", "y", "z"}
\* the bytes below ' ' that the model uses
ControlBytes == {NUL, SOH, "\t", "\r", "\n"}

isAlpha(c) == c \in UpperCase \cup LowerCase
isAlphaNumeric(c) == isAlpha(c) \/ c \in Digits
DigitSeq == <<"0", "1", "2", "3", "4", "5", "6", "7", "8", "9">>
DigitVal(c) == (CHOOSE i \in 1..10 : DigitSeq[i] = c) - 1

\* buf[i] of the source: index from 0; a global array is zero-initialised
At(buf, i) == IF i < Len(buf) THEN buf[i + 1] ELSE NUL
\* buf[i] = c of the source
SetAt(buf, i, c) == IF i < Len(buf) THEN [buf EXCEPT ![i + 1] = c]
                    ELSE buf \o [k \in 1..(i - Len(buf)) |-> NUL] \o <<c>>
\* memcmp(text, buf + off, strlen(text)) == 0
MemEq(text, buf, off) == \A k \in 1..Len(text) : At(buf, off + k - 1) = text[k]

\* ---------------------------------------------------------- command table

commandList == <<
    [text |-> Str2Seq("+RST"), mode |-> "MODE_EXACT_MATCH", cmd |-> "CMD_AT_RST"],
    [text |-> Str2Seq("+GMR"), mode |-> "MODE_EXACT_MATCH", cmd |-> "CMD_AT_GMR"],
    [text |-> Str2Seq("E"), mode |-> "MODE_NO_CHECKING", cmd |-> "CMD_ATE"],
    [text |-> Str2Seq("+RESTORE"), mode |-> "MODE_EXACT_MATCH", cmd |-> "CMD_AT_RESTORE"],
    [text |-> Str2Seq("+UART"), mode |-> "MODE_QUERY_SET", cmd |-> "CMD_AT_UART"],
    [text |-> Str2Seq("+UART_CUR"), mode |-> "MODE_QUERY_SET", cmd |-> "CMD_AT_UART_CUR"],
    [text |-> Str2Seq("+UART_DEF"), mode |-> "MODE_QUERY_SET", cmd |-> "CMD_AT_UART_DEF"],
    [text |-> Str2Seq("+SYSRAM?"), mode |-> "MODE_EXACT_MATCH", cmd |-> "CMD_AT_SYSRAM"],
    [text |-> Str2Seq("+CWMODE"), mode |-> "MODE_QUERY_SET", cmd |-> "CMD_AT_CWMODE"],
    [text |-> Str2Seq("+CWMODE_CUR"), mode |-> "MODE_QUERY_SET", cmd |-> "CMD_AT_CWMODE_CUR"],
    [text |-> Str2Seq("+CWMODE_DEF"), mode |-> "MODE_QUERY_SET", cmd |-> "CMD_AT_CWMODE_DEF"],
    [text |-> Str2Seq("+CWJAP"), mode |-> "MODE_QUERY_SET", cmd |-> "CMD_AT_CWJAP"],
    [text |-> Str2Seq("+CWJAP_CUR"), mode |-> "MODE_QUERY_SET", cmd |-> "CMD_AT_CWJAP_CUR"],
    [text |-> Str2Seq("+CWJAP_DEF"), mode |-> "MODE_QUERY_SET", cmd |-> "CMD_AT_CWJAP_DEF"],
    [text |-> Str2Seq("+CWLAPOPT"), mode |-> "MODE_QUERY_SET", cmd |-> "CMD_AT_CWLAPOPT"],
    [text |-> Str2Seq("+CWLAP"), mode |-> "MODE_EXACT_MATCH", cmd |-> "CMD_AT_CWLAP"],
    [text |-> Str2Seq("+CWQAP"), mode |-> "MODE_EXACT_MATCH", cmd |-> "CMD_AT_CWQAP"],
    [text |-> Str2Seq("+CWSAP"), mode |-> "MODE_QUERY_SET", cmd |-> "CMD_AT_CWSAP"],
    [text |-> Str2Seq("+CWSAP_CUR"), mode |-> "MODE_QUERY_SET", cmd |-> "CMD_AT_CWSAP_CUR"],
    [text |-> Str2Seq("+CWSAP_DEF"), mode |-> "MODE_QUERY_SET", cmd |-> "CMD_AT_CWSAP_DEF"],
    [text |-> Str2Seq("+CWDHCP"), mode |-> "MODE_QUERY_SET", cmd |-> "CMD_AT_CWDHCP"],
    [text |-> Str2Seq("+CWDHCP_CUR"), mode |-> "MODE_QUERY_SET", cmd |-> "CMD_AT_CWDHCP_CUR"],
    [text |-> Str2Seq("+CWDHCP_DEF"), mode |-> "MODE_QUERY_SET", cmd |-> "CMD_AT_CWDHCP_DEF"],
    [text |-> Str2Seq("+CWAUTOCONN"), mode |-> "MODE_QUERY_SET", cmd |-> "CMD_AT_CWAUTOCONN"],
    [text |-> Str2Seq("+CIPSTAMAC"), mode |-> "MODE_QUERY_SET", cmd |-> "CMD_AT_CIPSTAMAC"],
    [text |-> Str2Seq("+CIPSTAMAC_CUR"), mode |-> "MODE_QUERY_SET", cmd |-> "CMD_AT_CIPSTAMAC_CUR"],
    [text |-> Str2Seq("+CIPSTAMAC_DEF"), mode |-> "MODE_QUERY_SET", cmd |-> "CMD_AT_CIPSTAMAC_DEF"],
    [text |-> Str2Seq("+CIPAPMAC"), mode |-> "MODE_QUERY_SET", cmd |-> "CMD_AT_CIPAPMAC"],
    [text |-> Str2Seq("+CIPAPMAC_CUR"), mode |-> "MODE_QUERY_SET", cmd |-> "CMD_AT_CIPAPMAC_CUR"],
    [text |-> Str2Seq("+CIPAPMAC_DEF"), mode |-> "MODE_QUERY_SET", cmd |-> "CMD_AT_CIPAPMAC_DEF"],
    [text |-> Str2Seq("+CIPSTA"), mode |-> "MODE_QUERY_SET", cmd |-> "CMD_AT_CIPSTA"],
    [text |-> Str2Seq("+CIPSTA_CUR"), mode |-> "MODE_QUERY_SET", cmd |-> "CMD_AT_CIPSTA_CUR"],
    [text |-> Str2Seq("+CIPSTA_DEF"), mode |-> "MODE_QUERY_SET", cmd |-> "CMD_AT_CIPSTA_DEF"],
    [text |-> Str2Seq("+CIPAP"), mode |-> "MODE_QUERY_SET", cmd |-> "CMD_AT_CIPAP"],
    [text |-> Str2Seq("+CIPAP_CUR"), mode |-> "MODE_QUERY_SET", cmd |-> "CMD_AT_CIPAP_CUR"],
    [text |-> Str2Seq("+CIPAP_DEF"), mode |-> "MODE_QUERY_SET", cmd |-> "CMD_AT_CIPAP_DEF"],
    [text |-> Str2Seq("+CWHOSTNAME"), mode |-> "MODE_QUERY_SET", cmd |-> "CMD_AT_CWHOSTNAME"],
    [text |-> Str2Seq("+CIPSTATUS"), mode |-> "MODE_EXACT_MATCH", cmd |-> "CMD_AT_CIPSTATUS"],
    [text |-> Str2Seq("+CIPSTART"), mode |-> "MODE_NO_CHECKING", cmd |-> "CMD_AT_CIPSTART"],
    [text |-> Str2Seq("+CIPSSLSIZE"), mode |-> "MODE_QUERY_SET", cmd |-> "CMD_AT_CIPSSLSIZE"],
    [text |-> Str2Seq("+CIPSEND"), mode |-> "MODE_NO_CHECKING", cmd |-> "CMD_AT_CIPSEND"],
    [text |-> Str2Seq("+CIPCLOSEMODE"), mode |-> "MODE_NO_CHECKING", cmd |-> "CMD_AT_CIPCLOSEMODE"],
    [text |-> Str2Seq("+CIPCLOSE"), mode |-> "MODE_NO_CHECKING", cmd |-> "CMD_AT_CIPCLOSE"],
    [text |-> Str2Seq("+CIFSR"), mode |-> "MODE_EXACT_MATCH", cmd |-> "CMD_AT_CIFSR"],
    [text |-> Str2Seq("+CIPMUX"), mode |-> "MODE_QUERY_SET", cmd |-> "CMD_AT_CIPMUX"],
    [text |-> Str2Seq("+CIPDINFO"), mode |-> "MODE_QUERY_SET", cmd |-> "CMD_AT_CIPDINFO"],
    [text |-> Str2Seq("+CIPSERVER"), mode |-> "MODE_NO_CHECKING", cmd |-> "CMD_AT_CIPSERVER"],
    [text |-> Str2Seq("+CIPSERVERMAXCONN"), mode |-> "MODE_QUERY_SET", cmd |-> "CMD_AT_CIPSERVERMAXCONN"],
    [text |-> Str2Seq("+CIPSTO"), mode |-> "MODE_QUERY_SET", cmd |-> "CMD_AT_CIPSTO"],
    [text |-> Str2Seq("+CIPRECVMODE"), mode |-> "MODE_QUERY_SET", cmd |-> "CMD_AT_CIPRECVMODE"],
    [text |-> Str2Seq("+CIPRECVDATA"), mode |-> "MODE_QUERY_SET", cmd |-> "CMD_AT_CIPRECVDATA"],
    [text |-> Str2Seq("+CIPRECVLEN"), mode |-> "MODE_QUERY_SET", cmd |-> "CMD_AT_CIPRECVLEN"],
    [text |-> Str2Seq("+CIPSNTPCFG"), mode |-> "MODE_QUERY_SET", cmd |-> "CMD_AT_CIPSNTPCFG"],
    [text |-> Str2Seq("+CIPSNTPTIME?"), mode |-> "MODE_EXACT_MATCH", cmd |-> "CMD_AT_CIPSNTPTIME"],
    [text |-> Str2Seq("+CIPDNS"), mode |-> "MODE_QUERY_SET", cmd |-> "CMD_AT_CIPDNS"],
    [text |-> Str2Seq("+CIPDNS_CUR"), mode |-> "MODE_QUERY_SET", cmd |-> "CMD_AT_CIPDNS_CUR"],
    [text |-> Str2Seq("+CIPDNS_DEF"), mode |-> "MODE_QUERY_SET", cmd |-> "CMD_AT_CIPDNS_DEF"],
    [text |-> Str2Seq("+SYSCPUFREQ"), mode |-> "MODE_QUERY_SET", cmd |-> "CMD_AT_SYSCPUFREQ"],
    [text |-> Str2Seq("+RFMODE"), mode |-> "MODE_QUERY_SET", cmd |-> "CMD_AT_RFMODE"],
    [text |-> Str2Seq("+CIPSSLAUTH"), mode |-> "MODE_QUERY_SET", cmd |-> "CMD_AT_CIPSSLAUTH"],
    [text |-> Str2Seq("+CIPSSLFP"), mode |-> "MODE_QUERY_SET", cmd |-> "CMD_AT_CIPSSLFP"],
    [text |-> Str2Seq("+CIPSSLCERTMAX"), mode |-> "MODE_QUERY_SET", cmd |-> "CMD_AT_CIPSSLCERTMAX"],
    [text |-> Str2Seq("+CIPSSLCERT"), mode |-> "MODE_NO_CHECKING", cmd |-> "CMD_AT_CIPSSLCERT"],
    [text |-> Str2Seq("+CIPSSLMFLN"), mode |-> "MODE_QUERY_SET", cmd |-> "CMD_AT_CIPSSLMFLN"],
    [text |-> Str2Seq("+CIPSSLSTA"), mode |-> "MODE_NO_CHECKING", cmd |-> "CMD_AT_CIPSSLSTA"],
    [text |-> Str2Seq("+SNTPTIME?"), mode |-> "MODE_EXACT_MATCH", cmd |-> "CMD_AT_SNTPTIME"]
>>

\* ------------------------------------------------------- lexical scanners

\* A uint32_t is kept as its two 16-bit halves, so that out * 10 + digit wraps
\* at 2^32 as it does in the program.
U16 == 65536
U32Zero == [hi |-> 0, lo |-> 0]
U32Step(v, d) ==
    LET lo == v.lo * 10 + d
    IN  [hi |-> (v.hi * 10 + lo \div U16) % U16, lo |-> lo % U16]
\* The value as a number; the values from 2^31 on, which the program only
\* ever compares with small limits, all read as 2^31 - 1.
U32Big == 2147483647
U32Val(v) == IF v.hi < 32768 THEN v.hi * U16 + v.lo ELSE U32Big

RECURSIVE readNumberLoop(_, _, _, _)
readNumberLoop(buf, offset, out, ret) ==
    IF At(buf, offset) \in Digits
    THEN readNumberLoop(buf, offset + 1, U32Step(out, DigitVal(At(buf, offset))), TRUE)
    ELSE [ret |-> ret, offset |-> offset, out |-> out]

\* readNumber(inpBuf, offset, output): .ret the result, .offset the cursor
\* afterwards, .output the output variable afterwards (prev when it fails),
\* .low16 what a uint16_t takes of it
readNumber(buf, offset, prev) ==
    LET r == readNumberLoop(buf, offset, U32Zero, FALSE)
    IN  [ret |-> r.ret, offset |-> r.offset,
         output |-> IF r.ret THEN U32Val(r.out) ELSE prev,
         low16 |-> IF r.ret THEN r.out.lo ELSE prev % U16]

\* the while loop of readStringFromBuffer: .offset where it stops, .s the
\* characters copied
RECURSIVE readStringLoop(_, _, _, _)
readStringLoop(buf, offset, escape, s) ==
    LET c == At(buf, offset)
    IN  IF c # "\"" /\ c \notin ControlBytes
        THEN IF ~escape \/ c # "\\"
             THEN readStringLoop(buf, offset + 1, escape, Append(s, c))
             ELSE readStringLoop(buf, offset + 2, escape,
                                 Append(s, At(buf, offset + 1)))
        ELSE [offset |-> offset, s |-> s]

\* readStringFromBuffer: .s the string returned (empty on error), .offset
\* the cursor afterwards
readStringFromBuffer(buf, offset, escape, allowEmpty) ==
    IF At(buf, offset) = "\""
    THEN LET r == readStringLoop(buf, offset + 1, escape, <<>>)
         IN  IF At(buf, r.offset) = "\"" /\ (r.s # <<>> \/ allowEmpty)
             THEN [s |-> r.s, offset |-> r.offset + 1]
             ELSE [s |-> <<>>, offset |-> r.offset]
    ELSE [s |-> <<>>, offset |-> offset]

\* ---------------------------------------------------------------- matcher

\* an exact entry of length n takes a line one byte longer as well
ExactLength_OneMore(n, inpLen) == inpLen = n + 4 \/ inpLen = n + 5
\* line 5677: an exact entry of length n takes a line of this length
ExactLength(n, inpLen) == inpLen = n + 4

\* a query of any length is taken
QueryLengthWrong_Never(c, n, inpLen) == FALSE
\* line 5686: a query that is not of the exact length
QueryLengthWrong(c, n, inpLen) == c = "?" /\ inpLen # n + 5

\* any byte may follow the text of an entry that is not checked
NoCheckingAccepts_Any(c) == TRUE
\* line 5698: the byte after the text of an entry that is not checked
NoCheckingAccepts(c) == ~isAlpha(c)

\* the result of the table scan from entry i on
RECURSIVE findCommandFrom(_, _, _)
findCommandFrom(input, inpLen, i) ==
    IF i > Len(commandList) THEN "CMD_ERROR"
    ELSE LET e == commandList[i]
             n == Len(e.text)
             c == At(input, n + 2)
         IN  IF MemEq(e.text, input, 2)
             THEN CASE e.mode = "MODE_EXACT_MATCH" ->
                       IF ExactLength(n, inpLen) THEN e.cmd
                       ELSE findCommandFrom(input, inpLen, i + 1)
                    [] e.mode = "MODE_QUERY_SET" ->
                       IF c = "=" \/ c = "?"
                       THEN IF QueryLengthWrong(c, n, inpLen) THEN "CMD_ERROR"
                            ELSE e.cmd
                       ELSE findCommandFrom(input, inpLen, i + 1)
                    [] e.mode = "MODE_NO_CHECKING" ->
                       IF NoCheckingAccepts(c) THEN e.cmd
                       ELSE findCommandFrom(input, inpLen, i + 1)
             ELSE findCommandFrom(input, inpLen, i + 1)

\* the matcher without the test for the CR before the LF
findCommand_NoCR(input, inpLen) ==
    IF \/ inpLen < 4
       \/ At(input, 0) # "A"
       \/ At(input, 1) # "T"
       \/ At(input, inpLen - 1) # "\n"
    THEN "CMD_ERROR"
    ELSE IF inpLen = 4 THEN "CMD_AT"
    ELSE findCommandFrom(input, inpLen, 1)

findCommand(input, inpLen) ==
    IF \/ inpLen < 4
       \/ At(input, 0) # "A"
       \/ At(input, 1) # "T"
       \/ At(input, inpLen - 2) # "\r"
       \/ At(input, inpLen - 1) # "\n"
    THEN "CMD_ERROR"
    ELSE IF inpLen = 4 THEN "CMD_AT"
    ELSE findCommandFrom(input, inpLen, 1)

\* ------------------------------------------------------------------ state

VARIABLES
    tx,                 \* host: the bytes of its current line still to be sent
    sent,               \* host: the number of lines it has begun
    rx,                 \* UART receive FIFO: arrived, not yet read by loop()
    pc,                 \* position of loop(): "poll", "read", "cmd"; "halted"
                        \* when the program has ended and loop() is not called
    lineCompleted,      \* local of loop()
    inputBuffer,        \* the array, stale bytes beyond inputBufferCnt included
    inputBufferCnt,
    clients,            \* the five link slots
    gsLinkIdReading,    \* link armed for SEND_DATA, or -1
    sendBuffer,         \* sendBuffer[0 .. dataRead-1]
    gsCipMux,
    gsCipRecvMode,
    gsCertLoading,
    PemCertificate,     \* PemCertificate[0 .. PemCertificatePos-1]
    pemAllocated,       \* PemCertificate # nullptr
    CAcert,             \* the certificate store: a sequence of DER byte strings
    maximumCertificates,
    gsFlag_Busy,
    gsFlag_Connecting,
    sort_enable,
    scanPending,        \* a scan started by scanNetworksAsync has not called back
    gsCipSslAuth,
    fingerprint,        \* the 20 bytes of the SHA-1 fingerprint
    fingerprintValid,
    servers,            \* the five listening sockets: .open and .port
    gsServersMaxConn,
    gsServerConnTimeout,
    pending,            \* network: peers waiting to be accepted, per server
    gsCipSslSize,       \* command AT+CIPSSLSIZE
    orphans,            \* heap: connection objects AT+CIPSTART has allocated
                        \* and has neither deleted nor put into a slot
    certShape,          \* how the certificate in the store was put together
    cnBytes,            \* what getCnFromDer returned last: an index into the
                        \* certificate, or NullPtr
    cn,                 \* the name printCertificateName has printed last
    topRead,            \* the highest index of the certificate the last
                        \* decode has read, or -1
    eeprom,             \* the settings record in the EEPROM
    data,               \* EEPROMData::data as the constructor of the last
                        \* Settings access has left it, or NoData
    out,                \* what the last step printed on the serial line
    wr,                 \* the client->write() calls of the last step
    ran,                \* the command whose handler the last step ran, or ""
    importedDer,        \* the DER bytes the last step's PEM parse produced, or <<>>
    armedBytes          \* history: the bytes that arrived since the link was armed

hostVars == <<tx, sent, rx>>
loopVars == <<pc, lineCompleted>>
bufVars  == <<inputBuffer, inputBufferCnt>>
linkVars == <<clients, gsLinkIdReading, sendBuffer, gsCipMux, gsCipRecvMode>>
certVars == <<gsCertLoading, PemCertificate, pemAllocated, CAcert, maximumCertificates>>
busyVars == <<gsFlag_Busy, gsFlag_Connecting, sort_enable, scanPending>>
tlsVars  == <<gsCipSslAuth, fingerprint, fingerprintValid>>
serverVars == <<servers, gsServersMaxConn, gsServerConnTimeout, pending>>
sslVars  == <<gsCipSslSize, orphans>>
derVars  == <<certShape, cnBytes, cn, topRead>>
eeVars   == <<eeprom, data>>
vars == <<tx, sent, rx, pc, lineCompleted, inputBuffer, inputBufferCnt, clients,
          gsLinkIdReading, sendBuffer, gsCipMux, gsCipRecvMode, gsCertLoading,
          PemCertificate, pemAllocated, CAcert, maximumCertificates,
          gsFlag_Busy, gsFlag_Connecting, sort_enable, scanPending,
          gsCipSslAuth, fingerprint, fingerprintValid, servers,
          gsServersMaxConn, gsServerConnTimeout, pending, gsCipSslSize, orphans,
          certShape, cnBytes, cn, topRead, eeprom, data,
          out, wr, ran, importedDer, armedBytes>>

\* dataRead of the source
dataRead == Len(sendBuffer)
\* PemCertificatePos of the source
PemCertificatePos == Len(PemCertificate)

LinkIds == 0..4
\* a free slot; .connected, .avail and .localPort are what the WiFiClient
\* object answers, .idle that millis() - lastActivityMillis exceeds
\* gsServerConnTimeout, .viaServer the history of where the object came from
noClient == [client |-> FALSE, connected |-> FALSE, avail |-> 0,
             type |-> "TYPE_NONE", sendLength |-> 0, lastAvailableBytes |-> 0,
             localPort |-> 0, idle |-> FALSE, viaServer |-> FALSE,
             recvSize |-> 0]
\* the receive buffer of a connection object on which setBufferSizes has
\* not been called
DefaultRecvSize == 16384
\* the local port of a connection the module has opened: none a server has
OutgoingPort == -1
\* nullptr as the result of getCnFromDer
NullPtr == -1
\* the store holds no certificate put together for the decoder
NoShape == <<>>
ServerIds == 0..4

\* ----------------------------------------------------------------- bounds

\* capacity of the UART receive FIFO in the model
RxMax == 2
\* the number of bursts (a line, or a line and what follows it) the host
\* sends in a run
MaxLines == 2
\* the certificate capacity stored in the settings at start
StartMaxCerts == 2
\* the number of certificate files setup() finds
MaxFiles == 2
\* the unread bytes a connection holds at most
MaxAvail == 1
\* the peers that wait at a listening server at most
MaxPending == 1

\* --------------------------------------------------------------- Settings

\* the fields of eepromData_t before crc32 (settings.h 39-50)
Fields == {"uartBaudRate", "uartConfig", "dhcpMode", "netConfig", "dnsConfig",
           "apIpConfig", "maximumCertificates"}
SERIAL_8N1 == 28
NoData == <<>>

\* the bytes of a record that crc32 runs over; an ipConfig_t is <<ip, gw,
\* mask>>, a dnsConfig_t <<dns1, dns2>>
DataBytes(d) ==
    <<d.uartBaudRate % 256, d.uartBaudRate \div 256 % 256, d.uartBaudRate \div 65536,
      d.uartConfig, d.dhcpMode>>
    \o d.netConfig \o d.dnsConfig \o d.apIpConfig \o <<d.maximumCertificates>>

\* crc32() belongs to the core, not to the program: a 16-bit checksum of the
\* same bytes stands for it
RECURSIVE CrcOver(_, _)
CrcOver(bytes, crc) ==
    IF bytes = <<>> THEN crc
    ELSE CrcOver(Tail(bytes), (crc * 31 + Head(bytes) + 1) % 65521)
crc32(d) == CrcOver(DataBytes(d), 1)

\* Settings::resetData (settings.cpp 120-127)
resetData_AllFields(d) ==
    [d EXCEPT !.uartBaudRate = 115200, !.uartConfig = SERIAL_8N1, !.dhcpMode = 3,
              !.netConfig = <<0, 0, 0>>, !.dnsConfig = <<0, 0>>,
              !.apIpConfig = <<0, 0, 0>>, !.maximumCertificates = 5]
resetData(d) ==
    [d EXCEPT !.uartBaudRate = 115200, !.uartConfig = SERIAL_8N1, !.dhcpMode = 3,
              !.netConfig = <<0, 0, 0>>, !.dnsConfig = <<0, 0>>]

\* EEPROMData::EEPROMData (settings.cpp 133-151): the record the object holds
\* when the EEPROM holds ee
EEPROMData(ee) == IF crc32(ee) # ee.crc32 THEN resetData(ee) ELSE ee

\* EEPROMData::~EEPROMData (settings.cpp 153-168): the EEPROM afterwards, when
\* it held ee and the object holds d
EEPROMData_dtor(ee, d) == IF d # ee THEN [d EXCEPT !.crc32 = crc32(d)] ELSE ee

\* a record with its checksum
Stored(d) == [d EXCEPT !.crc32 = crc32(d)]
\* the record Settings::reset leaves when AT+CIPAP_DEF and AT+CIPSSLCERTMAX
\* have never been given: ESP_ATMod.ino 152 and README.md 347 for the two
\* fields resetData does not name
Defaults ==
    [uartBaudRate |-> 115200, uartConfig |-> SERIAL_8N1, dhcpMode |-> 3,
     netConfig |-> <<0, 0, 0>>, dnsConfig |-> <<0, 0>>, apIpConfig |-> <<0, 0, 0>>,
     maximumCertificates |-> 5, crc32 |-> 0]

\* ------------------------------------------------------------------- Init

\* the globals that setup() does not read from the settings, when the
\* certificate files have left store
InitStatics(store) ==
    /\ clients = [i \in LinkIds |-> noClient]
    /\ gsLinkIdReading = -1
    /\ sendBuffer = <<>>
    /\ gsCipMux = 0
    /\ gsCipRecvMode = 0
    /\ gsCertLoading = FALSE
    /\ PemCertificate = <<>> /\ pemAllocated = FALSE
    /\ CAcert = store
    /\ gsFlag_Busy = FALSE /\ gsFlag_Connecting = FALSE
    /\ sort_enable = 0
    /\ scanPending = FALSE
    /\ gsCipSslAuth = 0 /\ fingerprintValid = FALSE
    /\ fingerprint = [i \in 1..20 |-> 0]
    /\ servers = [j \in ServerIds |-> [open |-> FALSE, port |-> 0]]
    /\ gsServersMaxConn = 5
    /\ gsServerConnTimeout = 180000
    /\ pending = [j \in ServerIds |-> 0]
    /\ gsCipSslSize = 16384
    /\ orphans = 0
    /\ cnBytes = NullPtr /\ cn = <<>> /\ topRead = -1
    /\ out = <<>> /\ wr = <<>> /\ ran = "" /\ importedDer = <<>> /\ armedBytes = <<>>

\* the globals after setup() when the settings hold max as the maximum
\* number of certificates and the certificate files have left store
InitGlobals(store, max) ==
    /\ eeprom = Stored([Defaults EXCEPT !.maximumCertificates = max])
    /\ data = Stored([Defaults EXCEPT !.maximumCertificates = max])
    /\ maximumCertificates = max
    /\ InitStatics(store)

\* the state after setup(): nothing has arrived on the serial line
InitSettings(store, max) ==
    /\ tx = <<>> /\ sent = 0 /\ rx = <<>>
    /\ pc = "poll" /\ lineCompleted = FALSE
    /\ inputBuffer = <<>> /\ inputBufferCnt = 0
    /\ certShape = NoShape
    /\ InitGlobals(store, max)

\* the state after setup() when the certificate files have left store
InitStore(store) == InitSettings(store, StartMaxCerts)

\* the state after setup() with no certificate file in the file system
Init == InitStore(<<>>)

\* ----------------------------------------------------- program constants

INPUT_BUFFER_LEN == 100
\* sizeof(sendBuffer) and the largest size AT+CIPSEND accepts
SEND_BUFFER_LEN == 2048
\* PemCertificatePos must exceed this before the end marker is looked for
PEM_END_MIN_POS == 100
EndMarker == Str2Seq("-----END CERTIFICATE-----")
\* the bytes strchr("/+= -\\\r\n", c) finds: the terminating NUL is one of them
PemExtraBytes == {"/", "+", "=", " ", "-", "\\", "\r", "\n", NUL}

\* MAX_PEM_CERT_LENGTH of the source is 4096; the model's load buffer is
\* shorter so that a text that fills it stays small
MAX_PEM_CERT_LENGTH == 110

\* ------------------------------------------------------------ environment

\* A byte of the host's current line arrives in the UART FIFO; when the line
\* is finished the host picks its next line from Menu.
HostSend(Menu) ==
    /\ Len(rx) < RxMax
    /\ tx # <<>> \/ sent < MaxLines
    /\ sent' = IF tx = <<>> THEN sent + 1 ELSE sent
    /\ \E l \in (IF tx = <<>> THEN Menu ELSE {tx}) :
          /\ rx' = Append(rx, Head(l))
          /\ tx' = Tail(l)
          /\ armedBytes' =
                IF /\ gsLinkIdReading \in LinkIds
                   /\ Len(armedBytes) < clients[gsLinkIdReading].sendLength
                THEN Append(armedBytes, Head(l)) ELSE armedBytes
    /\ out' = <<>> /\ wr' = <<>> /\ ran' = "" /\ importedDer' = <<>>
    /\ UNCHANGED <<loopVars, bufVars, linkVars, certVars, busyVars, tlsVars, derVars, eeVars, sslVars, serverVars>>

\* The remote end of link i closes the connection.
RemoteClose(i) ==
    /\ clients[i].client /\ clients[i].connected
    /\ clients' = [clients EXCEPT ![i].connected = FALSE]
    /\ out' = <<>> /\ wr' = <<>> /\ ran' = "" /\ importedDer' = <<>>
    /\ UNCHANGED <<hostVars, loopVars, bufVars, gsLinkIdReading, sendBuffer,
                   gsCipMux, gsCipRecvMode, certVars, busyVars, tlsVars, derVars, eeVars, sslVars, serverVars, armedBytes>>

\* Bytes from the remote end of link i arrive.
RemoteData(i) ==
    /\ clients[i].client /\ clients[i].connected
    /\ clients[i].avail < MaxAvail
    /\ clients' = [clients EXCEPT ![i].avail = @ + 1]
    /\ out' = <<>> /\ wr' = <<>> /\ ran' = "" /\ importedDer' = <<>>
    /\ UNCHANGED <<hostVars, loopVars, bufVars, gsLinkIdReading, sendBuffer,
                   gsCipMux, gsCipRecvMode, certVars, busyVars, tlsVars, derVars, eeVars, sslVars, serverVars,
                   armedBytes>>

\* Time passes: link i has now been without activity for longer than
\* gsServerConnTimeout.
IdleLong(i) ==
    /\ clients[i].client /\ ~clients[i].idle
    /\ clients' = [clients EXCEPT ![i].idle = TRUE]
    /\ out' = <<>> /\ wr' = <<>> /\ ran' = "" /\ importedDer' = <<>>
    /\ UNCHANGED <<hostVars, loopVars, bufVars, gsLinkIdReading, sendBuffer,
                   gsCipMux, gsCipRecvMode, certVars, busyVars, tlsVars, derVars, eeVars, sslVars, serverVars,
                   armedBytes>>

\* A peer connects to listening server j and waits to be accepted.
PeerConnects(j) ==
    /\ servers[j].open
    /\ pending[j] < MaxPending
    /\ pending' = [pending EXCEPT ![j] = @ + 1]
    /\ out' = <<>> /\ wr' = <<>> /\ ran' = "" /\ importedDer' = <<>>
    /\ UNCHANGED <<hostVars, loopVars, bufVars, linkVars, certVars, busyVars,
                   tlsVars, derVars, eeVars, sslVars, servers, gsServersMaxConn, gsServerConnTimeout, armedBytes>>

\* ------------------------------------------------------------ DeleteClient

\* the clients array after DeleteClient(index)
DeleteClient_clients(cl, index) ==
    IF index > 4 THEN cl
    ELSE [cl EXCEPT ![index] =
             [noClient EXCEPT !.lastAvailableBytes = cl[index].lastAvailableBytes]]
\* gsLinkIdReading after DeleteClient(index)
DeleteClient_reading(reading, index) ==
    IF index <= 4 /\ index = reading THEN -1 ELSE reading

\* -------------------------------------------------- loop(): network poll

\* link i after the data check of the poll (lines 362-386); oom: SendData
\* gets no buffer and leaves the bytes unread
PollData(c, oom) ==
    IF c.client /\ c.avail > c.lastAvailableBytes
    THEN IF gsCipRecvMode = 0
         THEN [c EXCEPT !.avail = IF oom THEN @ ELSE 0,           \* SendData(i, 0)
                        !.idle = FALSE]
         ELSE [c EXCEPT !.lastAvailableBytes = c.avail, !.idle = FALSE]
    ELSE c
\* the poll releases a link whose remote is gone, unread bytes or not
PollDead_Disconnected(c, oom) == c.client /\ ~c.connected
\* the poll releases a link that holds no unread bytes, remote gone or not
PollDead_Connected(c, oom) == c.client /\ PollData(c, oom).avail = 0
\* whether the poll releases link i for its dead remote (lines 388-397)
PollDead(c, oom) == c.client /\ PollData(c, oom).avail = 0 /\ ~c.connected
\* the link belongs to a listening server (lines 402-412)
isServer(c) == \E j \in ServerIds : servers[j].open /\ c.localPort = servers[j].port
\* the poll releases an idle link whether or not a server accepted it
PollTimeout_AnyLink(c, oom) ==
    /\ c.client /\ ~PollDead(c, oom)
    /\ gsServerConnTimeout # 0 /\ PollData(c, oom).avail = 0 /\ PollData(c, oom).idle
\* whether the poll releases link i for its idle time (lines 415-416)
PollTimeout(c, oom) ==
    /\ c.client /\ ~PollDead(c, oom)
    /\ isServer(c)
    /\ gsServerConnTimeout # 0 /\ PollData(c, oom).avail = 0 /\ PollData(c, oom).idle
\* what the poll prints for links i..maxCli
RECURSIVE PollOut(_, _, _)
PollOut(i, maxCli, ooms) ==
    IF i > maxCli THEN <<>>
    ELSE (IF clients[i].client /\ clients[i].avail > clients[i].lastAvailableBytes
          THEN <<IF i \in ooms THEN "+IPD,out of mem" ELSE "+IPD">> ELSE <<>>)
         \o (IF PollDead(clients[i], i \in ooms) \/ PollTimeout(clients[i], i \in ooms)
             THEN <<"CLOSED">> ELSE <<>>)
         \o PollOut(i + 1, maxCli, ooms)

\* the lowest free slot of cl among 0..maxCli, or 255 (lines 453-461)
LowestFree(cl, maxCli) ==
    IF \E j \in 0..maxCli : ~cl[j].client
    THEN CHOOSE j \in 0..maxCli :
            ~cl[j].client /\ \A k \in 0..(j - 1) : cl[k].client
    ELSE 255

\* what the poll prints for a peer accepted into slot id
ConnectToken(id) ==
    <<"0,CONNECT", "1,CONNECT", "2,CONNECT", "3,CONNECT", "4,CONNECT">>[id + 1]

\* the accept loop of lines 436-463 from server i on; st holds the slots, the
\* waiting peers, freeLinkId, serversConnCount and what has been printed
RECURSIVE AcceptFrom(_, _, _)
AcceptFrom(i, maxCli, st) ==
    IF i > 4 \/ st.freeLinkId = 255 \/ st.serversConnCount >= gsServersMaxConn
    THEN st
    ELSE IF ~servers[i].open \/ st.pending[i] = 0
    THEN AcceptFrom(i + 1, maxCli, st)
    ELSE LET cl == [st.clients EXCEPT ![st.freeLinkId] =
                       [@ EXCEPT !.client = TRUE, !.connected = TRUE, !.avail = 0,
                                 !.type = "TYPE_TCP", !.lastAvailableBytes = 0,
                                 !.idle = FALSE, !.localPort = servers[i].port,
                                 !.viaServer = TRUE]]
         IN  AcceptFrom(i + 1, maxCli,
                        [clients |-> cl,
                         pending |-> [st.pending EXCEPT ![i] = @ - 1],
                         freeLinkId |-> LowestFree(cl, maxCli),
                         serversConnCount |-> st.serversConnCount + 1,
                         out |-> st.out \o <<ConnectToken(st.freeLinkId)>>])

\* The first part of loop(): data, closed connections, idle server
\* connections and new peers (lines 347-463).
LoopPoll ==
    /\ pc = "poll"
    /\ pc' = "read"
    /\ \E availableForWrite \in BOOLEAN :
          IF availableForWrite
          THEN LET maxCli == IF gsCipMux = 1 THEN 4 ELSE 0
                   reading == {i \in 0..maxCli :
                                 /\ clients[i].client /\ gsCipRecvMode = 0
                                 /\ clients[i].avail > clients[i].lastAvailableBytes}
               IN  \E ooms \in SUBSET reading :
                   LET dead == {i \in 0..maxCli : PollDead(clients[i], i \in ooms)}
                       timedOut == {i \in 0..maxCli : PollTimeout(clients[i], i \in ooms)}
                       polled == [i \in LinkIds |->
                                    IF i > maxCli THEN clients[i]
                                    ELSE IF i \in dead \cup timedOut
                                         THEN DeleteClient_clients(clients, i)[i]
                                         ELSE PollData(clients[i], i \in ooms)]
                       free == {i \in 0..maxCli : ~clients[i].client \/ i \in dead}
                       st == AcceptFrom(0, maxCli,
                                [clients |-> polled,
                                 pending |-> pending,
                                 freeLinkId |-> IF free = {} THEN 255
                                                ELSE CHOOSE i \in free :
                                                        \A k \in free : i <= k,
                                 serversConnCount |->
                                    Cardinality({i \in 0..maxCli :
                                                   /\ polled[i].client
                                                   /\ isServer(polled[i])}),
                                 out |-> PollOut(0, maxCli, ooms)])
                   IN  /\ clients' = st.clients
                       /\ pending' = st.pending
                       /\ gsLinkIdReading' =
                             IF gsLinkIdReading \in dead \cup timedOut
                             THEN DeleteClient_reading(gsLinkIdReading, gsLinkIdReading)
                             ELSE gsLinkIdReading
                       /\ out' = st.out
          ELSE /\ out' = <<>>
               /\ UNCHANGED <<clients, gsLinkIdReading, pending>>
    /\ wr' = <<>> /\ ran' = "" /\ importedDer' = <<>>
    /\ UNCHANGED <<hostVars, lineCompleted, bufVars, sendBuffer, gsCipMux,
                   gsCipRecvMode, certVars, busyVars, tlsVars, derVars, eeVars, sslVars, servers,
                   gsServersMaxConn, gsServerConnTimeout, armedBytes>>

\* ------------------------------------------------ loop(): the serial port

ReadGuard == pc = "read" /\ ~lineCompleted /\ rx # <<>>

\* SEND_DATA: the byte goes to the send buffer (lines 501-528); what the
\* transfer does with a link id past the table (see SlotRead) is undefined,
\* and the model follows the program no further
ReadSendData ==
    /\ ReadGuard
    /\ gsLinkIdReading \in LinkIds
    /\ LET c == Head(rx)
           L == gsLinkIdReading
           n == clients[L].sendLength
           buf == Append(sendBuffer, c)
       IN  /\ rx' = Tail(rx)
           /\ IF Len(buf) >= n
              THEN \E s \in (IF n = 0 THEN {0}
                             ELSE IF clients[L].connected THEN {0, n} ELSE {0}) :
                      /\ wr' = <<[link |-> L, object |-> clients[L].client,
                                  bytes |-> SubSeq(buf, 1, n),
                                  arrived |-> armedBytes]>>
                      /\ IF s = n
                         THEN /\ out' = <<"Recv", "SEND OK">>
                              /\ clients' = [clients EXCEPT ![L].idle = FALSE]
                         ELSE /\ out' = <<"Recv", "SEND FAIL">>
                              /\ clients' = [clients EXCEPT ![L].connected = FALSE,
                                                            ![L].avail = 0]
                      /\ gsLinkIdReading' = -1
                      /\ sendBuffer' = <<>>
                      /\ armedBytes' = <<>>
              ELSE /\ sendBuffer' = buf
                   /\ out' = <<>> /\ wr' = <<>>
                   /\ UNCHANGED <<clients, gsLinkIdReading, armedBytes>>
    /\ ran' = "" /\ importedDer' = <<>>
    /\ UNCHANGED <<tx, sent, loopVars, bufVars, gsCipMux, gsCipRecvMode, certVars,
                   busyVars, tlsVars, derVars, eeVars, sslVars, serverVars>>

\* ------------------------------------------------------ certificate store

\* DER byte strings the PEM decoder can hand over
DerA == <<48, 1, 1>>
DerB == <<48, 1, 2>>
DerShort == <<48, 1>>
DerSet == {DerA, DerB, DerShort}

\* The values !memcmp(importedCert->data, cert->data, importedCert->data_len)
\* can take: only the imported length is compared; when the imported
\* certificate is longer than the stored one and agrees with all of it, the
\* comparison reads past the end of the stored certificate.
MemcmpIsZero(imported, cert) ==
    IF Len(imported) <= Len(cert)
    THEN {SubSeq(cert, 1, Len(imported)) = imported}
    ELSE IF SubSeq(imported, 1, Len(cert)) = cert THEN BOOLEAN ELSE {FALSE}

\* checkCertificateDuplicatesAndLoad: the possible outcomes, .dup the value
\* returned and .store the store afterwards.  CAcert->append() adds the
\* certificate or, when the library refuses it, leaves the store as it is.
checkCertificateDuplicatesAndLoad(imported, store) ==
    (IF \E i \in 1..Len(store) : TRUE \in MemcmpIsZero(imported, store[i])
     THEN {[dup |-> TRUE, store |-> store]} ELSE {})
    \cup
    (IF \A i \in 1..Len(store) : FALSE \in MemcmpIsZero(imported, store[i])
     THEN {[dup |-> FALSE, store |-> Append(store, imported)],
           [dup |-> FALSE, store |-> store]}
     ELSE {})

\* The stores setup() can leave after reading up to files certificate files
\* (lines 245-326): a file is skipped when the store is full, and loaded
\* through checkCertificateDuplicatesAndLoad otherwise.
RECURSIVE setupStoresMax(_, _, _)
setupStoresMax(store, files, max) ==
    IF files = 0 \/ Len(store) >= max THEN {store}
    ELSE {store} \cup UNION {setupStoresMax(r.store, files - 1, max) :
                               r \in UNION {checkCertificateDuplicatesAndLoad(der, store) :
                                            der \in DerSet}}

setupStores(store, files) == setupStoresMax(store, files, StartMaxCerts)

\* the state after setup() with up to MaxFiles certificate files
InitFiles == \E store \in setupStores(<<>>, MaxFiles) : InitStore(store)

\* ------------------------------------- loop(): CERT_LOAD (lines 529-620)

\* the filter of line 533 with '*' let through as well
PemAllowed_Star(c) == isAlphaNumeric(c) \/ c \in PemExtraBytes \cup {"*"}
\* the bytes the filter of line 533 lets through
PemAllowed(c) == isAlphaNumeric(c) \/ c \in PemExtraBytes

\* the byte stored for c and the buffer it is stored in (lines 536-543)
PemFold(c, pem) ==
    IF c = "\r" THEN [c |-> "\n", pem |-> pem]
    ELSE IF c = "n" /\ Len(pem) > 0 /\ pem[Len(pem)] = "\\"
         THEN [c |-> "\n", pem |-> SubSeq(pem, 1, Len(pem) - 1)]
         ELSE [c |-> c, pem |-> pem]

\* a line break is stored whatever the byte before it
PemStored_Always(f) == TRUE
\* whether the folded byte is stored (line 546)
PemStored(f) == f.c # "\n" \/ (Len(f.pem) > 0 /\ f.pem[Len(f.pem)] # "\n")

\* the end marker test of lines 551-553 on the buffer after the store
PemAtEnd(c, pem) ==
    /\ c = "-"
    /\ Len(pem) > PEM_END_MIN_POS
    /\ SubSeq(pem, Len(pem) - Len(EndMarker) + 1, Len(pem)) = EndMarker

\* the end of the load, lines 611-619: the rest of the FIFO is thrown away
CertDrain(loading, fifo) == IF loading THEN fifo ELSE <<>>

ReadCertLoad ==
    /\ ReadGuard
    /\ gsLinkIdReading < 0
    /\ gsCertLoading
    /\ LET c == Head(rx)
           f == PemFold(c, PemCertificate)
           pem == Append(f.pem, f.c)
       IN  IF PemAllowed(c)
           THEN IF PemStored(f)
                THEN IF PemAtEnd(f.c, pem)
                     THEN \E count \in 0..2 :
                            IF count # 1
                            THEN \* "Loading certificate failed": loop() returns
                                 /\ out' = <<"Read", "Loading certificate failed", "ERROR">>
                                 /\ PemCertificate' = pem
                                 /\ pc' = "poll"
                                 /\ rx' = Tail(rx)
                                 /\ importedDer' = <<>>
                                 /\ UNCHANGED <<gsCertLoading, pemAllocated, CAcert>>
                            ELSE \E der \in DerSet :
                                 \E r \in checkCertificateDuplicatesAndLoad(der, CAcert) :
                                    /\ PemCertificate' = <<>>
                                    /\ pemAllocated' = FALSE
                                    /\ gsCertLoading' = FALSE
                                    /\ CAcert' = r.store
                                    /\ out' = IF r.dup
                                              THEN <<"Read", "Tried to load already existing certificate", "ERROR">>
                                              ELSE IF Len(r.store) = Len(CAcert) + 1
                                                   THEN <<"Read", "OK">>
                                                   ELSE <<"Read", "no certificate", "ERROR">>
                                    /\ rx' = CertDrain(FALSE, Tail(rx))
                                    /\ pc' = pc
                                    /\ importedDer' = der
                     ELSE /\ PemCertificate' = pem
                          /\ IF Len(pem) > MAX_PEM_CERT_LENGTH - 1
                             THEN gsCertLoading' = FALSE /\ out' = <<"ERROR">>
                             ELSE gsCertLoading' = gsCertLoading /\ out' = <<>>
                          /\ rx' = CertDrain(gsCertLoading', Tail(rx))
                          /\ importedDer' = <<>>
                          /\ UNCHANGED <<pc, pemAllocated, CAcert>>
                ELSE /\ PemCertificate' = f.pem
                     /\ rx' = Tail(rx)
                     /\ out' = <<>>
                     /\ importedDer' = <<>>
                     /\ UNCHANGED <<pc, gsCertLoading, pemAllocated, CAcert>>
           ELSE IF c \in ControlBytes
                THEN /\ rx' = Tail(rx)
                     /\ out' = <<>>
                     /\ importedDer' = <<>>
                     /\ UNCHANGED <<pc, certVars>>
                ELSE \* illegal character in certificate
                     /\ gsCertLoading' = FALSE
                     /\ out' = <<"ERROR">>
                     /\ rx' = CertDrain(FALSE, Tail(rx))
                     /\ importedDer' = <<>>
                     /\ UNCHANGED <<pc, PemCertificate, pemAllocated, CAcert>>
    /\ wr' = <<>> /\ ran' = ""
    /\ UNCHANGED <<tx, sent, lineCompleted, bufVars, linkVars, maximumCertificates,
                   busyVars, tlsVars, derVars, eeVars, sslVars, serverVars, armedBytes>>

\* ------------------------------------- loop(): COMMAND (lines 621-644)

\* the byte goes to the command buffer (lines 621-644)
\* the command buffer takes a byte when it holds INPUT_BUFFER_LEN bytes, too
BufferHasRoom_OneMore(cnt) == cnt <= INPUT_BUFFER_LEN
\* the test of line 621
BufferHasRoom(cnt) == cnt < INPUT_BUFFER_LEN

ReadCommandStore ==
    /\ ReadGuard
    /\ LET c == Head(rx)
       IN  /\ rx' = Tail(rx)
           /\ IF BufferHasRoom(inputBufferCnt)
              THEN /\ inputBuffer' = SetAt(inputBuffer, inputBufferCnt, c)
                   /\ inputBufferCnt' = inputBufferCnt + 1
                   /\ lineCompleted' = (c = "\n")
                   /\ out' = <<>>
              ELSE /\ inputBufferCnt' = 0
                   /\ out' = <<"ERROR">>
                   /\ UNCHANGED <<inputBuffer, lineCompleted>>
    /\ wr' = <<>> /\ ran' = "" /\ importedDer' = <<>>
    /\ UNCHANGED <<tx, sent, pc, linkVars, certVars, busyVars, tlsVars, derVars, eeVars, sslVars, serverVars, armedBytes>>

\* the command buffer takes the byte while a link is armed, too
ReadCommand_Armed == ~gsCertLoading /\ ReadCommandStore
\* COMMAND: neither a link is armed nor a certificate is loading
ReadCommand == gsLinkIdReading < 0 /\ ~gsCertLoading /\ ReadCommandStore

\* ------------------------------------------- loop(): the end (649-744)

\* the while loop of line 492 is left: the FIFO is empty or a line is complete
ReadDone == pc = "read" /\ (lineCompleted \/ rx = <<>>)

StationStatus == {"STATION_GOT_IP", "STATION_NO_AP_FOUND", "STATION_CONNECT_FAIL",
                  "STATION_WRONG_PASSWORD", "STATION_CONNECTING", "STATION_IDLE"}

\* "Are we connecting now?" (lines 650-711); status is the SDK's answer
LoopConnecting ==
    /\ ReadDone
    /\ gsFlag_Connecting
    /\ pc' = "cmd"
    /\ \E status \in StationStatus :
          IF status \in {"STATION_CONNECTING", "STATION_IDLE"}
          THEN out' = <<>> /\ UNCHANGED <<gsFlag_Connecting, gsFlag_Busy>>
          ELSE /\ gsFlag_Connecting' = FALSE
               /\ gsFlag_Busy' = FALSE
               /\ out' = IF status = "STATION_GOT_IP" THEN <<"OK">>
                         ELSE <<"+CWJAP", "FAIL">>
    /\ wr' = <<>> /\ ran' = "" /\ importedDer' = <<>>
    /\ UNCHANGED <<hostVars, lineCompleted, bufVars, linkVars, certVars,
                   sort_enable, scanPending, tlsVars, derVars, eeVars, sslVars, serverVars, armedBytes>>

\* line 713 is reached
TailReady == pc = "cmd" \/ (ReadDone /\ ~gsFlag_Connecting)

\* what lines 730-743 leave in the FIFO: the bytes before the first 'A' go
RECURSIVE DiscardGarbage(_)
DiscardGarbage(fifo) ==
    IF fifo = <<>> \/ Head(fifo) = "A" THEN fifo ELSE DiscardGarbage(Tail(fifo))

\* lines 714-724: busy, the input buffer is discarded
LoopBusy ==
    /\ TailReady
    /\ gsFlag_Busy
    /\ IF inputBufferCnt # 0
       THEN out' = <<"busy p...">> /\ inputBufferCnt' = 0
       ELSE out' = <<>> /\ inputBufferCnt' = inputBufferCnt
    /\ pc' = "poll" /\ lineCompleted' = FALSE
    /\ wr' = <<>> /\ ran' = "" /\ importedDer' = <<>>
    /\ UNCHANGED <<hostVars, inputBuffer, linkVars, certVars, busyVars, tlsVars, derVars, eeVars, sslVars, serverVars,
                   armedBytes>>

\* neither busy nor a complete line: loop() returns
LoopIdle ==
    /\ TailReady
    /\ ~gsFlag_Busy
    /\ ~lineCompleted
    /\ pc' = "poll"
    /\ out' = <<>> /\ wr' = <<>> /\ ran' = "" /\ importedDer' = <<>>
    /\ UNCHANGED <<hostVars, lineCompleted, bufVars, linkVars, certVars, busyVars,
                   tlsVars, derVars, eeVars, sslVars, serverVars, armedBytes>>

\* a complete line is handed to processCommandBuffer, busy or not
CommandDue_Busy == TailReady /\ lineCompleted
\* line 725: a complete line is handed to processCommandBuffer
CommandDue == TailReady /\ ~gsFlag_Busy /\ lineCompleted

\* processCommandBuffer for command code cmd, less the handler's own effect,
\* and the discard of lines 730-743
Dispatch(cmd) ==
    /\ CommandDue
    /\ findCommand(inputBuffer, inputBufferCnt) = cmd
    /\ ran' = cmd /\ importedDer' = <<>>
    /\ inputBufferCnt' = 0
    /\ rx' = DiscardGarbage(rx)
    /\ tx' = tx /\ sent' = sent
    /\ lineCompleted' = FALSE
    /\ wr' = <<>>

\* ----------------------------------------------------------- handlers

\* no handler: processCommandBuffer answers ERROR (line 2886)
cmd_ERROR ==
    /\ out' = <<"ERROR">>
    /\ UNCHANGED <<inputBuffer, linkVars, certVars, busyVars, tlsVars, derVars, eeVars, sslVars, serverVars, armedBytes>>

cmd_AT ==
    /\ out' = <<"OK">>
    /\ UNCHANGED <<inputBuffer, linkVars, certVars, busyVars, tlsVars, derVars, eeVars, sslVars, serverVars, armedBytes>>

\* AT+CIPMUX without the test for a running server
cmd_AT_CIPMUX_LinksOnly ==
    /\ IF At(inputBuffer, 9) = "?" /\ inputBufferCnt = 12
       THEN out' = <<"+CIPMUX", "OK">> /\ gsCipMux' = gsCipMux
       ELSE LET r == readNumber(inputBuffer, 10, 0)
            IN  IF /\ At(inputBuffer, 9) = "="
                   /\ r.ret /\ r.output <= 1 /\ inputBufferCnt = r.offset + 2
                THEN IF \E i \in LinkIds : clients[i].client
                     THEN out' = <<"link is builded", "ERROR">> /\ gsCipMux' = gsCipMux
                     ELSE out' = <<"OK">> /\ gsCipMux' = r.output
                ELSE out' = <<"ERROR">> /\ gsCipMux' = gsCipMux
    /\ UNCHANGED <<inputBuffer, clients, gsLinkIdReading, sendBuffer, gsCipRecvMode,
                   certVars, busyVars, tlsVars, derVars, eeVars, sslVars, serverVars, armedBytes>>
\* AT+CIPMUX: query or set the multiplexing mode (lines 4496-4545)
cmd_AT_CIPMUX ==
    /\ IF At(inputBuffer, 9) = "?" /\ inputBufferCnt = 12
       THEN out' = <<"+CIPMUX", "OK">> /\ gsCipMux' = gsCipMux
       ELSE LET r == readNumber(inputBuffer, 10, 0)
            IN  IF /\ At(inputBuffer, 9) = "="
                   /\ r.ret /\ r.output <= 1 /\ inputBufferCnt = r.offset + 2
                THEN LET linked == \E i \in LinkIds : clients[i].client
                         listening == \E j \in ServerIds : servers[j].open
                     IN  IF linked \/ listening
                         THEN /\ out' = (IF linked THEN <<"link is builded">> ELSE <<>>)
                                        \o (IF listening THEN <<"CIPSERVER must be 0">>
                                            ELSE <<>>)
                                        \o <<"ERROR">>
                              /\ gsCipMux' = gsCipMux
                         ELSE out' = <<"OK">> /\ gsCipMux' = r.output
                ELSE out' = <<"ERROR">> /\ gsCipMux' = gsCipMux
    /\ UNCHANGED <<inputBuffer, clients, gsLinkIdReading, sendBuffer, gsCipRecvMode,
                   certVars, busyVars, tlsVars, derVars, eeVars, sslVars, serverVars, armedBytes>>

\* the parse of AT+CIPSERVER (lines 4563-4591): .error, .stop, .port
CIPSERVER_parse ==
    LET stop == At(inputBuffer, 13) = "0"
        r == readNumber(inputBuffer, 15, 0)
    IN  IF At(inputBuffer, 12) # "=" \/ At(inputBuffer, 13) \notin {"0", "1"}
        THEN [error |-> 1, stop |-> FALSE, port |-> 0]
        ELSE IF inputBufferCnt > 16
        THEN IF At(inputBuffer, 14) # ","
             THEN [error |-> 1, stop |-> stop, port |-> 0]
             ELSE IF ~r.ret \/ r.output > 65535 \/ inputBufferCnt # r.offset + 2
             THEN [error |-> 2, stop |-> stop, port |-> r.output]
             ELSE [error |-> 0, stop |-> stop, port |-> r.output]
        ELSE [error |-> 0, stop |-> stop, port |-> IF stop THEN 0 ELSE 333]

\* the lowest server of a set, the one a for loop over the servers meets first
FirstServer(set) == CHOOSE j \in set : \A k \in set : j <= k

\* AT+CIPSERVER: stop or start a listening server (lines 4549-4642); whether
\* begin() opens the socket is the network stack's answer
cmd_AT_CIPSERVER ==
    LET p == CIPSERVER_parse
        running == {j \in ServerIds : servers[j].open}
        hit == {j \in running : servers[j].port = p.port \/ p.port = 0}
        same == {j \in running : servers[j].port = p.port}
        closed == ServerIds \ running
        keep == UNCHANGED <<servers, pending>>
    IN  /\ IF gsCipMux = 0 THEN out' = <<"ERROR">> /\ keep
           ELSE IF p.error # 0 THEN out' = <<"ERROR">> /\ keep
           ELSE IF p.stop
           THEN IF hit = {} THEN out' = <<"no change", "ERROR">> /\ keep
                ELSE /\ servers' = [servers EXCEPT ![FirstServer(hit)].open = FALSE]
                     /\ pending' = [pending EXCEPT ![FirstServer(hit)] = 0]
                     /\ out' = <<"OK">>
           ELSE IF same # {} THEN out' = <<"no change", "ERROR">> /\ keep
           ELSE IF closed = {} THEN out' = <<"OK">> /\ keep
           ELSE \E begun \in BOOLEAN :
                   /\ servers' = [servers EXCEPT ![FirstServer(closed)] =
                                     [open |-> begun, port |-> p.port]]
                   /\ pending' = pending
                   /\ out' = IF begun THEN <<"OK">> ELSE <<"ERROR">>
        /\ UNCHANGED <<inputBuffer, linkVars, certVars, busyVars, tlsVars, derVars, eeVars, sslVars,
                       gsServersMaxConn, gsServerConnTimeout, armedBytes>>

\* AT+CIPSERVERMAXCONN: query or set the limit (lines 4651-4676)
cmd_AT_CIPSERVERMAXCONN ==
    LET max == readNumber(inputBuffer, 20, 0)
    IN  /\ IF At(inputBuffer, 19) = "?"
           THEN out' = <<"+CIPSERVERMAXCONN", "OK">> /\ gsServersMaxConn' = gsServersMaxConn
           ELSE IF /\ At(inputBuffer, 19) = "="
                   /\ max.ret /\ max.output >= 1 /\ max.output <= 5
                   /\ inputBufferCnt = max.offset + 2
           THEN out' = <<"OK">> /\ gsServersMaxConn' = max.output
           ELSE out' = <<"ERROR">> /\ gsServersMaxConn' = gsServersMaxConn
        /\ UNCHANGED <<inputBuffer, linkVars, certVars, busyVars, tlsVars, derVars, eeVars, sslVars, servers,
                       gsServerConnTimeout, pending, armedBytes>>

\* AT+CIPSTO: query or set the idle timeout of server connections (lines
\* 4681-4706); .idle stands for millis() - lastActivityMillis >
\* gsServerConnTimeout, so a longer timeout can only end a link's idleness
\* and a shorter one can only begin it
cmd_AT_CIPSTO ==
    LET to == readNumber(inputBuffer, 10, 0)
        held == {i \in LinkIds : clients[i].client}
        idleNow == {i \in held : clients[i].idle}
    IN  /\ IF At(inputBuffer, 9) = "?"
           THEN out' = <<"+CIPSTO", "OK">> /\ UNCHANGED <<gsServerConnTimeout, clients>>
           ELSE IF /\ At(inputBuffer, 9) = "="
                   /\ to.ret /\ to.output <= 7200
                   /\ inputBufferCnt = to.offset + 2
           THEN /\ out' = <<"OK">>
                /\ gsServerConnTimeout' = to.output * 1000
                /\ \E S \in SUBSET held :
                      /\ to.output * 1000 >= gsServerConnTimeout => S \subseteq idleNow
                      /\ to.output * 1000 <= gsServerConnTimeout => idleNow \subseteq S
                      /\ clients' = [i \in LinkIds |->
                                       IF i \in held
                                       THEN [clients[i] EXCEPT !.idle = i \in S]
                                       ELSE clients[i]]
           ELSE out' = <<"ERROR">> /\ UNCHANGED <<gsServerConnTimeout, clients>>
        /\ UNCHANGED <<inputBuffer, gsLinkIdReading, sendBuffer, gsCipMux, gsCipRecvMode,
                       certVars, busyVars, tlsVars, derVars, eeVars, sslVars, servers,
                       gsServersMaxConn, pending, armedBytes>>

\* the handler reads slots 0..4 only
SlotRead_InTable(linkId) ==
    IF linkId \in LinkIds THEN {clients[linkId]} ELSE {noClient}
\* the slot clients[linkId] as the handler reads it; linkId 5 is past the
\* end of the array and reads whatever follows it: no pointer, or a pointer
\* to something that answers connected() and available() either way
SlotRead(linkId) ==
    IF linkId \in LinkIds THEN {clients[linkId]}
    ELSE {[noClient EXCEPT !.client = c, !.connected = c /\ k, !.avail = a] :
             c \in BOOLEAN, k \in BOOLEAN, a \in {0, 1}}

\* the parse of AT+CIPSEND up to the link test: .ok, .diag, .linkId, .offset
CIPSEND_link ==
    IF At(inputBuffer, 10) # "=" THEN [ok |-> FALSE, diag |-> <<>>]
    ELSE IF At(inputBuffer, 11) \in {"0", "1", "2", "3", "4", "5"}
            /\ At(inputBuffer, 12) = ","
         THEN IF gsCipMux = 0 THEN [ok |-> FALSE, diag |-> <<"MUX=0">>]
              ELSE [ok |-> TRUE, linkId |-> DigitVal(At(inputBuffer, 11)),
                    offset |-> 13]
         ELSE [ok |-> TRUE, linkId |-> 0, offset |-> 11]

\* the link test passes for any slot that holds a connection object
LinkValid_Allocated(cli) == cli.client
\* the link test of line 4312: the slot is in use and its connection alive
LinkValid(cli) == cli.client /\ cli.connected

cmd_AT_CIPSEND ==
    LET p == CIPSEND_link
    IN  /\ IF ~p.ok
           THEN /\ out' = p.diag \o <<"ERROR">>
                /\ UNCHANGED <<clients, gsLinkIdReading, sendBuffer, armedBytes>>
           ELSE \E cli \in SlotRead(p.linkId) :
                LET r == readNumber(inputBuffer, p.offset, 0)
                IN  IF ~LinkValid(cli)
                    THEN /\ out' = <<"link is not valid", "ERROR">>
                         /\ UNCHANGED <<clients, gsLinkIdReading, sendBuffer, armedBytes>>
                    ELSE IF ~r.ret \/ r.offset + 2 # inputBufferCnt
                    THEN /\ out' = <<"ERROR">>
                         /\ UNCHANGED <<clients, gsLinkIdReading, sendBuffer, armedBytes>>
                    ELSE IF r.output > SEND_BUFFER_LEN
                    THEN /\ out' = <<"too long", "ERROR">>
                         /\ UNCHANGED <<clients, gsLinkIdReading, sendBuffer, armedBytes>>
                    ELSE /\ clients' = IF p.linkId \in LinkIds
                                        THEN [clients EXCEPT ![p.linkId].sendLength = r.low16]
                                        ELSE clients
                         /\ gsLinkIdReading' = p.linkId
                         /\ sendBuffer' = <<>>
                         /\ out' = <<"OK", ">">>
                         /\ armedBytes' =
                               SubSeq(rx, 1, IF Len(rx) < r.output THEN Len(rx)
                                             ELSE r.output)
        /\ UNCHANGED <<inputBuffer, gsCipMux, gsCipRecvMode, certVars, busyVars,
                       tlsVars, derVars, eeVars, sslVars, serverVars>>

\* the end of the remote address: the while loop of lines 4081-4084
RECURSIVE addrEnd(_, _)
addrEnd(buf, offset) ==
    IF At(buf, offset) # "\"" /\ At(buf, offset) \notin ControlBytes \cup {" "}
    THEN addrEnd(buf, offset + 1) ELSE offset

RECURSIVE skipDigits(_, _)
skipDigits(buf, offset) ==
    IF At(buf, offset) \in Digits THEN skipDigits(buf, offset + 1) ELSE offset

\* the parse of AT+CIPSTART (lines 4032-4119): .error as in the source,
\* .linkID, .type, .buf the input buffer afterwards
CIPSTART_parse ==
    LET b == inputBuffer
        o1 == 12
        mux == gsCipMux = 1
        idOk == At(b, o1) \in {"0", "1", "2", "3", "4"} /\ At(b, o1 + 1) = ","
        linkID == IF mux /\ idOk THEN DigitVal(At(b, o1)) ELSE 0
        o2 == IF mux THEN o1 + 2 ELSE o1
        o3 == o2 + 1
        type == IF MemEq(Str2Seq("TCP"), b, o3) THEN "TYPE_TCP"
                ELSE IF MemEq(Str2Seq("UDP"), b, o3) THEN "TYPE_UDP"
                ELSE IF MemEq(Str2Seq("SSL"), b, o3) THEN "TYPE_SSL"
                ELSE "TYPE_NONE"
        o4 == o3 + 3
        o5 == o4 + 3
        o6 == addrEnd(b, o5)
        b2 == SetAt(b, o6, NUL)
        port == readNumber(b2, o6 + 2, 0)
        o7 == IF port.offset + 2 < inputBufferCnt /\ At(b2, port.offset) = ","
              THEN skipDigits(b2, port.offset + 1) ELSE port.offset
        res(e, buf) == [error |-> e, linkID |-> linkID, type |-> type, buf |-> buf]
    IN  IF At(b, 11) # "=" THEN res(1, b)
        ELSE IF mux /\ ~idOk THEN res(2, b)
        ELSE IF At(b, o2) # "\"" THEN res(3, b)
        ELSE IF type = "TYPE_NONE" THEN res(3, b)
        ELSE IF At(b, o4) # "\"" \/ At(b, o4 + 1) # "," \/ At(b, o4 + 2) # "\""
             THEN res(4, b)
        ELSE IF At(b, o6) # "\"" \/ At(b, o6 + 1) # "," THEN res(4, b)
        ELSE IF ~port.ret \/ port.output > 65535 THEN res(100, b2)
        ELSE IF port.offset + 2 < inputBufferCnt /\ At(b2, port.offset) # ","
             THEN res(100, b2)
        ELSE IF o7 + 2 # inputBufferCnt THEN res(100, b2)
        ELSE res(0, b2)

\* what AT+CIPSTART prints for an error code (lines 4219-4239)
CIPSTART_errorOut(error) ==
    IF error = 100 THEN <<"ERROR", "CLOSED">>
    ELSE (CASE error = 3 -> <<"Link type ERROR">>
            [] error = 4 -> <<"IP ERROR">>
            [] error = 5 -> <<"ALREADY CONNECTED">>
            [] error = 6 -> <<"no ip">>
            [] OTHER -> <<>>) \o <<"ERROR">>

\* the TLS prerequisites with the certificate store left out of the test
CIPSTART_sslOk_ModeOnly ==
    \/ gsCipSslAuth = 0
    \/ gsCipSslAuth = 1 /\ fingerprintValid
    \/ gsCipSslAuth = 2
\* whether the TLS prerequisites of lines 4157-4173 hold
CIPSTART_sslOk ==
    \/ gsCipSslAuth = 0
    \/ gsCipSslAuth = 1 /\ fingerprintValid
    \/ gsCipSslAuth = 2 /\ Len(CAcert) > 0

\* whether the handler deletes the connection object it has made when it
\* gives up for reason: the TLS prerequisite (line 4171), the name lookup
\* (line 4183), the connect (line 4195)
ReleasedOnError_NotConnect(reason) == reason \in {"tls", "dns"}

ReleasedOnError(reason) == reason \in {"tls", "dns", "connect"}

\* AT+CIPSTART; the network's part is chosen by the environment: whether the
\* station has an IP, what operator new does when the heap is exhausted
\* ("null": it returns nullptr, "abort": it ends the program), the DNS answer
\* and the connect. A call through the null pointer (lines 4154-4167) ends
\* the program as well: loop() is not called again until the reset.
cmd_AT_CIPSTART ==
    LET p == CIPSTART_parse
    IN  /\ inputBuffer' = p.buf
        /\ IF p.error # 0
           THEN /\ out' = CIPSTART_errorOut(p.error) /\ clients' = clients
                /\ orphans' = orphans /\ pc' = "poll"
           ELSE \E hasIp, dns, connect \in BOOLEAN, alloc \in {"ok", "null", "abort"} :
                LET made == p.type \in {"TYPE_TCP", "TYPE_SSL"}
                    setters == gsCipSslSize # 16384 \/ CIPSTART_sslOk
                    reason ==
                      IF ~hasIp THEN "noip"
                      ELSE IF clients[p.linkID].client THEN "already"
                      ELSE IF ~made THEN "type"
                      ELSE IF alloc = "abort" THEN "halt"
                      ELSE IF p.type = "TYPE_SSL" /\ alloc = "null" /\ setters THEN "halt"
                      ELSE IF p.type = "TYPE_SSL" /\ ~CIPSTART_sslOk THEN "tls"
                      ELSE IF alloc = "null" THEN "oom"
                      ELSE IF ~dns THEN "dns"
                      ELSE IF ~connect THEN "connect"
                      ELSE "ok"
                    error == CASE reason = "noip" -> 6
                               [] reason = "already" -> 5
                               [] reason \in {"type", "tls", "oom"} -> 99
                               [] reason \in {"dns", "connect"} -> 100
                               [] OTHER -> 0
                    object == alloc = "ok" /\ reason \in {"tls", "dns", "connect"}
                IN  IF reason = "halt"
                    THEN /\ out' = <<>> /\ clients' = clients
                         /\ orphans' = orphans /\ pc' = "halted"
                    ELSE IF error # 0
                    THEN /\ out' = (IF reason = "dns" THEN <<"DNS Fail">>
                                    ELSE IF reason = "connect" THEN <<"connect fail">>
                                    ELSE <<>>) \o CIPSTART_errorOut(error)
                         /\ clients' = clients
                         /\ orphans' = IF object /\ ~ReleasedOnError(reason)
                                       THEN orphans + 1 ELSE orphans
                         /\ pc' = "poll"
                    ELSE /\ out' = <<"CONNECT", "OK">>
                         /\ clients' = [clients EXCEPT ![p.linkID] =
                               [@ EXCEPT !.client = TRUE, !.connected = TRUE,
                                         !.avail = 0, !.type = p.type,
                                         !.lastAvailableBytes = 0,
                                         !.localPort = OutgoingPort,
                                         !.recvSize =
                                            IF p.type = "TYPE_SSL" /\ gsCipSslSize # 16384
                                            THEN gsCipSslSize ELSE DefaultRecvSize]]
                         /\ orphans' = orphans /\ pc' = "poll"
        /\ UNCHANGED <<gsLinkIdReading, sendBuffer, gsCipMux, gsCipRecvMode,
                       certVars, busyVars, tlsVars, derVars, eeVars, gsCipSslSize, serverVars, armedBytes>>

\* AT+CIPSSLSIZE (lines 4245-4273)
cmd_AT_CIPSSLSIZE ==
    LET r == readNumber(inputBuffer, 14, 0)
        sslSize == r.output
    IN  /\ IF /\ At(inputBuffer, 13) = "="
              /\ r.ret /\ inputBufferCnt = r.offset + 2
              /\ sslSize \in {512, 1024, 2048, 4096, 16384}
           THEN /\ gsCipSslSize' = IF sslSize = 16384 THEN 0 ELSE sslSize
                /\ out' = <<"OK">>
           ELSE /\ gsCipSslSize' = gsCipSslSize
                /\ out' = <<"ERROR">>
        /\ UNCHANGED <<inputBuffer, linkVars, certVars, busyVars, tlsVars, derVars, eeVars, orphans,
                       serverVars, armedBytes>>

\* AT+CIPCLOSE: the link id parsed, or the error (lines 4414-4431)
CIPCLOSE_parse ==
    LET r == readNumber(inputBuffer, 12, 0)
    IN  IF At(inputBuffer, 11) = "="
        THEN IF ~r.ret \/ r.output > 5 \/ inputBufferCnt # r.offset + 2
             THEN [ok |-> FALSE, diag |-> <<>>]
             ELSE IF gsCipMux = 0 THEN [ok |-> FALSE, diag |-> <<"MUX=0">>]
             ELSE [ok |-> TRUE, linkId |-> r.output]
        ELSE IF inputBufferCnt # 13 THEN [ok |-> FALSE, diag |-> <<>>]
        ELSE IF gsCipMux # 0 THEN [ok |-> FALSE, diag |-> <<"MUX=1">>]
        ELSE [ok |-> TRUE, linkId |-> 0]

cmd_AT_CIPCLOSE ==
    LET p == CIPCLOSE_parse
    IN  /\ IF ~p.ok
           THEN /\ out' = p.diag \o <<"ERROR">>
                /\ UNCHANGED <<clients, gsLinkIdReading>>
           ELSE IF p.linkId # 5 /\ ~clients[p.linkId].client
           THEN /\ out' = (IF gsCipMux # 0 THEN <<"UNLINK">> ELSE <<>>) \o <<"ERROR">>
                /\ UNCHANGED <<clients, gsLinkIdReading>>
           ELSE LET closed == {id \in LinkIds :
                                 (id = p.linkId \/ p.linkId = 5) /\ clients[id].client}
                IN  /\ clients' = [id \in LinkIds |->
                          IF id \in closed THEN DeleteClient_clients(clients, id)[id]
                          ELSE clients[id]]
                    /\ gsLinkIdReading' =
                          IF gsLinkIdReading \in closed
                          THEN DeleteClient_reading(gsLinkIdReading, gsLinkIdReading)
                          ELSE gsLinkIdReading
                    /\ out' = [k \in 1..Cardinality(closed) |-> "CLOSED"] \o <<"OK">>
        /\ UNCHANGED <<inputBuffer, sendBuffer, gsCipMux, gsCipRecvMode, certVars,
                       busyVars, tlsVars, derVars, eeVars, sslVars, serverVars, armedBytes>>

\* AT+CIPRECVMODE: query or set the receive mode (lines 4740-4765)
cmd_AT_CIPRECVMODE ==
    LET recvMode == readNumber(inputBuffer, 15, 0)
    IN  /\ IF At(inputBuffer, 14) = "?" /\ inputBufferCnt = 17
           THEN out' = <<"+CIPRECVMODE", "OK">> /\ gsCipRecvMode' = gsCipRecvMode
           ELSE IF /\ At(inputBuffer, 14) = "="
                   /\ recvMode.ret /\ recvMode.output <= 1
                   /\ inputBufferCnt = recvMode.offset + 2
           THEN out' = <<"OK">> /\ gsCipRecvMode' = recvMode.output
           ELSE out' = <<"ERROR">> /\ gsCipRecvMode' = gsCipRecvMode
        /\ UNCHANGED <<inputBuffer, clients, gsLinkIdReading, sendBuffer, gsCipMux,
                       certVars, busyVars, tlsVars, derVars, eeVars, sslVars,
                       serverVars, armedBytes>>

\* the parse of AT+CIPRECVDATA up to the link test (lines 4786-4803)
CIPRECVDATA_link ==
    IF At(inputBuffer, 14) # "=" THEN [ok |-> FALSE, diag |-> <<>>]
    ELSE IF At(inputBuffer, 15) \in {"0", "1", "2", "3", "4", "5"}
            /\ At(inputBuffer, 16) = ","
         THEN IF gsCipMux = 0 THEN [ok |-> FALSE, diag |-> <<"MUX=0">>]
              ELSE [ok |-> TRUE, linkId |-> DigitVal(At(inputBuffer, 15)),
                    offset |-> 17]
         ELSE [ok |-> TRUE, linkId |-> 0, offset |-> 15]

\* the text SendData prints first (lines 881, 961-966)
respText == IF gsCipRecvMode = 0 THEN "+IPD" ELSE "+CIPRECVDATA"
\* SendData(clientIndex, maxSize) on the slot cli (lines 879-970): .bytes
\* the bytes handed to the host, .out what is printed; oom: no buffer
SendData(cli, maxSize, oom) ==
    LET avail == IF maxSize > 0 /\ maxSize < cli.avail THEN maxSize ELSE cli.avail
    IN  IF ~cli.client \/ cli.avail = 0 THEN [bytes |-> 0, out |-> <<>>]
        ELSE IF oom THEN [bytes |-> 0, out |-> <<respText \o ",out of mem">>]
        ELSE [bytes |-> avail, out |-> <<respText>>]

\* cli->lastAvailableBytes -= bytes in a uint16_t (line 4828)
CountAfter(last, bytes) == (last - bytes + U16) % U16

\* AT+CIPRECVDATA: hand unread bytes of a link to the host (lines 4780-4842)
cmd_AT_CIPRECVDATA ==
    LET p == CIPRECVDATA_link
        keep == UNCHANGED <<clients, gsLinkIdReading>>
    IN  /\ IF ~p.ok
           THEN out' = p.diag \o <<"ERROR">> /\ keep
           ELSE \E cli \in SlotRead(p.linkId), oom \in BOOLEAN :
                LET r == readNumber(inputBuffer, p.offset, 0)
                    sd == SendData(cli, r.output, oom)
                    L == p.linkId
                IN  IF ~cli.client
                    THEN out' = <<"link is not valid", "ERROR">> /\ keep
                    ELSE IF ~r.ret \/ r.offset + 2 # inputBufferCnt
                    THEN out' = <<"ERROR">> /\ keep
                    ELSE IF r.output > 2048
                    THEN out' = <<"too long", "ERROR">> /\ keep
                    ELSE IF sd.bytes = 0
                    THEN out' = sd.out \o <<"ERROR">> /\ keep
                    ELSE LET read == IF L \in LinkIds
                                     THEN [clients EXCEPT
                                             ![L].avail = @ - sd.bytes,
                                             ![L].lastAvailableBytes =
                                                CountAfter(@, sd.bytes)]
                                     ELSE clients
                         IN  /\ out' = sd.out \o <<"OK">>
                             /\ clients' = IF gsCipRecvMode = 0
                                           THEN DeleteClient_clients(read, L)
                                           ELSE read
                             /\ gsLinkIdReading' =
                                   IF gsCipRecvMode = 0
                                   THEN DeleteClient_reading(gsLinkIdReading, L)
                                   ELSE gsLinkIdReading
        /\ UNCHANGED <<inputBuffer, sendBuffer, gsCipMux, gsCipRecvMode, certVars,
                       busyVars, tlsVars, derVars, eeVars, sslVars, serverVars, armedBytes>>

\* AT+CIPRECVLEN: only the query prints anything (lines 4851-4872)
cmd_AT_CIPRECVLEN ==
    /\ out' = IF At(inputBuffer, 13) = "?" /\ inputBufferCnt = 16
              THEN <<"+CIPRECVLEN", "OK">> ELSE <<>>
    /\ UNCHANGED <<inputBuffer, linkVars, certVars, busyVars, tlsVars, derVars, eeVars, sslVars, serverVars, armedBytes>>

HexDigits == Digits \cup {"a", "b", "c", "d", "e", "f", "A", "B", "C", "D", "E", "F"}

\* the possible answers of the sscanf of line 3246 to "is it six bytes": a
\* text of the plain form xx:xx:xx:xx:xx:xx is six bytes, any other text is
\* left to the C library
BssidScan(bssid) ==
    IF /\ Len(bssid) = 17
       /\ \A i \in 1..17 : IF i % 3 = 0 THEN bssid[i] = ":" ELSE bssid[i] \in HexDigits
    THEN {TRUE} ELSE BOOLEAN

\* the set part of AT+CWJAP up to line 3251: the possible answers to "the
\* arguments are accepted"
CWJAP_parse(offset) ==
    LET ssid == readStringFromBuffer(inputBuffer, offset + 1, TRUE, FALSE)
        pwd == readStringFromBuffer(inputBuffer, ssid.offset + 1, TRUE, TRUE)
        has == At(inputBuffer, pwd.offset) = ","
        bssid == readStringFromBuffer(inputBuffer, pwd.offset + 1, FALSE, FALSE)
        last == IF has THEN bssid.offset ELSE pwd.offset
    IN  IF ssid.s = <<>> \/ At(inputBuffer, ssid.offset) # "," THEN {FALSE}
        ELSE IF has /\ Len(bssid.s) # 17 THEN {FALSE}
        ELSE IF has THEN {six /\ inputBufferCnt = last + 2 : six \in BssidScan(bssid.s)}
        ELSE {inputBufferCnt = last + 2}

\* AT+CWJAP, AT+CWJAP_CUR, AT+CWJAP_DEF; the WiFi mode, the station's state
\* and whether a disconnect succeeds in time are the environment's
cmd_AT_CWJAP(cmd) ==
    LET offset == IF cmd # "CMD_AT_CWJAP" THEN 12 ELSE 8
    IN  /\ \E apOnly, connected, stillConnected \in BOOLEAN :
           IF apOnly
           THEN out' = <<"ERROR">> /\ UNCHANGED <<gsFlag_Connecting, gsFlag_Busy>>
           ELSE IF At(inputBuffer, offset) = "?" /\ inputBufferCnt = offset + 3
           THEN /\ out' = (IF connected THEN <<"+CWJAP">> ELSE <<"No AP">>) \o <<"OK">>
                /\ UNCHANGED <<gsFlag_Connecting, gsFlag_Busy>>
           ELSE IF At(inputBuffer, offset) = "="
           THEN \E accepted \in CWJAP_parse(offset) :
                   IF accepted /\ ~(connected /\ stillConnected)
                   THEN /\ gsFlag_Connecting' = TRUE
                        /\ gsFlag_Busy' = TRUE
                        /\ out' = <<>>
                   ELSE /\ out' = <<"ERROR">>
                        /\ UNCHANGED <<gsFlag_Connecting, gsFlag_Busy>>
           ELSE out' = <<"ERROR">> /\ UNCHANGED <<gsFlag_Connecting, gsFlag_Busy>>
        /\ UNCHANGED <<inputBuffer, linkVars, certVars, sort_enable, scanPending,
                       tlsVars, derVars, eeVars, sslVars, serverVars, armedBytes>>

\* AT+CWLAPOPT: sort_enable is written by the first readNumber, whatever the
\* rest of the line and the reply are (lines 3308-3355)
cmd_AT_CWLAPOPT ==
    LET sort == readNumber(inputBuffer, 12, sort_enable)
        mask == readNumber(inputBuffer, sort.offset + 1, 0)
    IN  /\ IF At(inputBuffer, 11) = "="
           THEN /\ sort_enable' = sort.output
                /\ out' = IF sort.ret /\ mask.ret THEN <<"OK">> ELSE <<"ERROR">>
           ELSE /\ sort_enable' = sort_enable
                /\ out' = <<"ERROR">>
        /\ UNCHANGED <<inputBuffer, linkVars, certVars, gsFlag_Busy, gsFlag_Connecting,
                       scanPending, tlsVars, derVars, eeVars, sslVars, serverVars, armedBytes>>

\* AT+CWLAP: the scan is started and the module is busy; nothing is printed
cmd_AT_CWLAP ==
    /\ \E apOnly \in BOOLEAN :
          IF apOnly
          THEN out' = <<"ERROR">> /\ UNCHANGED <<gsFlag_Busy, scanPending>>
          ELSE out' = <<>> /\ gsFlag_Busy' = TRUE /\ scanPending' = TRUE
    /\ UNCHANGED <<inputBuffer, linkVars, certVars, gsFlag_Connecting, sort_enable,
                   tlsVars, derVars, eeVars, sslVars, serverVars, armedBytes>>

\* printScanResult, called by the SDK when the scan has finished; printCWLAP
\* prints the networks, clears the busy flag and answers OK
printScanResult ==
    /\ scanPending
    /\ scanPending' = FALSE
    /\ IF sort_enable \in {0, 1}
       THEN gsFlag_Busy' = FALSE /\ out' = <<"+CWLAP", "OK">>
       ELSE gsFlag_Busy' = gsFlag_Busy /\ out' = <<>>
    /\ wr' = <<>> /\ ran' = "" /\ importedDer' = <<>>
    /\ UNCHANGED <<hostVars, loopVars, bufVars, linkVars, certVars, gsFlag_Connecting,
                   sort_enable, tlsVars, derVars, eeVars, sslVars, serverVars, armedBytes>>

\* Settings::set... (settings.cpp 40-45, settings.h 98-104): the object is
\* made, the field set, the object destroyed
Settings_set(field, value) ==
    /\ data' = EEPROMData(eeprom)
    /\ eeprom' = EEPROMData_dtor(eeprom, [EEPROMData(eeprom) EXCEPT ![field] = value])

\* AT+CIPSSLCERTMAX (lines 5295-5319)
cmd_AT_CIPSSLCERTMAX ==
    LET max == readNumber(inputBuffer, 17, 0)
    IN  /\ IF At(inputBuffer, 16) = "?" /\ inputBufferCnt = 19
           THEN /\ out' = <<"+CIPSSLCERTMAX", "OK">>
                /\ UNCHANGED <<maximumCertificates, eeVars>>
           ELSE IF At(inputBuffer, 16) = "=" /\ max.ret
           THEN /\ out' = <<"OK">> /\ maximumCertificates' = max.output
                /\ Settings_set("maximumCertificates", max.output)
           ELSE /\ out' = <<"ERROR">>
                /\ UNCHANGED <<maximumCertificates, eeVars>>
        /\ UNCHANGED <<inputBuffer, linkVars, gsCertLoading, PemCertificate,
                       pemAllocated, CAcert, busyVars, tlsVars, derVars, sslVars, serverVars, armedBytes>>

\* the store has no room (line 5332), counted without its last place
CertStoreFull_OneMore == Len(CAcert) > maximumCertificates
\* the store has no room (line 5332)
CertStoreFull == Len(CAcert) >= maximumCertificates

\* the store with its last certificate moved to the n-th place
CertDelete_MoveLast(store, n) ==
    [i \in 1..(Len(store) - 1) |-> IF i = n THEN store[Len(store)] ELSE store[i]]
\* the store without its n-th certificate (lines 5413-5426)
CertDelete(store, n) == [i \in 1..(Len(store) - 1) |-> IF i < n THEN store[i] ELSE store[i + 1]]

\* ------------------------------------------------ asnDecode.cpp (C23-C25)

ASN_INTEGER == 2
ASN_OBJECT_IDENTIFER == 6
ASN_SEQUENCE == 16
ASN_SET == 17
ASN_PRINTABLE_STRING == 19
ASN_CONSTRUCTED == 32
ASN_CONTEXT_SPECIFIC == 128

\* der[i] where mem is the certificate and the bytes that lie behind it
MemAt(mem, i) == IF i < Len(mem) THEN mem[i + 1] ELSE 0

\* the length byte opens the four-byte header
LongForm_Any(lb) == lb >= 128

LongForm(lb) == lb = 130

\* readHeader(der, pos, length): .tag, .length and .dataPos of the result,
\* .pos the cursor afterwards, .top the highest index read, or -1
readHeader(mem, pos, length) ==
    IF pos >= length
    THEN [tag |-> 0, length |-> 0, dataPos |-> 0, pos |-> pos, top |-> -1]
    ELSE LET tag == MemAt(mem, pos)
             lb == MemAt(mem, pos + 1)
             len == IF lb < 128 THEN lb
                    ELSE MemAt(mem, pos + 2) * 256 + MemAt(mem, pos + 3)
             hdrsize == IF lb < 128 THEN 2 ELSE 4
             top == IF lb < 128 THEN pos + 1 ELSE IF LongForm(lb) THEN pos + 3 ELSE pos + 1
         IN  IF lb >= 128 /\ ~LongForm(lb)
             THEN [tag |-> tag, length |-> 0, dataPos |-> 0, pos |-> pos, top |-> top]
             ELSE IF pos + hdrsize > length
             THEN [tag |-> tag, length |-> len, dataPos |-> 0, pos |-> pos, top |-> top]
             ELSE [tag |-> tag, length |-> len, dataPos |-> (pos + hdrsize) % U16,
                   pos |-> (pos + hdrsize + len) % U16, top |-> top]

\* the header is refused by getCnFromDer: no data position, or another tag
Refused(hdr, tag) == hdr.dataPos = 0 \/ hdr.tag # tag

\* the object identifier 2.5.4.3
OidCommonName == <<85, 4, 3>>

\* memcmp(der + dataPos, "\x55\x04\x03", 3): .eq whether it is 0, .top the
\* index of the last byte compared
OidCompare(mem, dataPos) ==
    LET differ == {k \in 0..2 : MemAt(mem, dataPos + k) # OidCommonName[k + 1]}
    IN  IF differ = {} THEN [eq |-> TRUE, top |-> dataPos + 2]
        ELSE [eq |-> FALSE, top |-> dataPos + (CHOOSE k \in differ : \A j \in differ : k <= j)]

\* the value v handed to what follows, K
Bind(v, K(_)) == CHOOSE r \in {K(x) : x \in {v}} : TRUE
\* the largest member of S
Highest(S) == CHOOSE x \in S : \A y \in S : y <= x
\* the position behind the content of the header hdr
EndOf(hdr) == (hdr.dataPos + hdr.length) % U16
\* getCnFromDer returns nullptr after the reads of tops
None(tops) == [ret |-> NullPtr, top |-> Highest(tops)]

\* the while loop of lines 180-234: .ret the index returned or NullPtr
RECURSIVE IssuerScan(_, _, _, _)
IssuerScan(mem, issuerPos, issuerEnd, top) ==
    IF issuerPos >= issuerEnd THEN None({top})
    ELSE
    Bind(readHeader(mem, issuerPos, issuerEnd), LAMBDA set :
    IF Refused(set, ASN_SET + ASN_CONSTRUCTED) THEN None({top, set.top})
    ELSE
    Bind(readHeader(mem, set.dataPos, EndOf(set)), LAMBDA seq :
    IF Refused(seq, ASN_SEQUENCE + ASN_CONSTRUCTED) THEN None({top, set.top, seq.top})
    ELSE
    Bind(readHeader(mem, seq.dataPos, EndOf(seq)), LAMBDA oid :
    IF Refused(oid, ASN_OBJECT_IDENTIFER) THEN None({top, set.top, seq.top, oid.top})
    ELSE IF oid.length # 3
    THEN IssuerScan(mem, set.pos, issuerEnd, Highest({top, set.top, seq.top, oid.top}))
    ELSE
    Bind(OidCompare(mem, oid.dataPos), LAMBDA same :
    IF ~same.eq
    THEN IssuerScan(mem, set.pos, issuerEnd,
                    Highest({top, set.top, seq.top, oid.top, same.top}))
    ELSE
    Bind(readHeader(mem, oid.pos, EndOf(seq)), LAMBDA val :
    IF val.dataPos = 0 \/ val.tag # ASN_PRINTABLE_STRING
    THEN None({top, set.top, seq.top, oid.top, same.top, val.top})
    ELSE [ret |-> val.dataPos - 1,
          top |-> Highest({top, set.top, seq.top, oid.top, same.top, val.top})])))))

\* getCnFromDer(der, length) on a certificate that is not nullptr: .ret the
\* index of the byte the result points to, or NullPtr; .top the highest
\* index read
getCnFromDer(mem, length) ==
    Bind(readHeader(mem, 0, length), LAMBDA cert :
    IF Refused(cert, ASN_SEQUENCE + ASN_CONSTRUCTED) THEN None({cert.top})
    ELSE
    Bind(readHeader(mem, cert.dataPos, EndOf(cert)), LAMBDA tbs :
    IF Refused(tbs, ASN_SEQUENCE + ASN_CONSTRUCTED) THEN None({cert.top, tbs.top})
    ELSE
    Bind(readHeader(mem, tbs.dataPos, EndOf(tbs)), LAMBDA version :
    IF Refused(version, ASN_CONTEXT_SPECIFIC + ASN_CONSTRUCTED)
    THEN None({cert.top, tbs.top, version.top})
    ELSE
    Bind(readHeader(mem, version.pos, EndOf(tbs)), LAMBDA serial :
    IF Refused(serial, ASN_INTEGER)
    THEN None({cert.top, tbs.top, version.top, serial.top})
    ELSE
    Bind(readHeader(mem, serial.pos, EndOf(tbs)), LAMBDA signature :
    IF Refused(signature, ASN_SEQUENCE + ASN_CONSTRUCTED)
    THEN None({cert.top, tbs.top, version.top, serial.top, signature.top})
    ELSE
    Bind(readHeader(mem, signature.pos, EndOf(tbs)), LAMBDA issuer :
    IF Refused(issuer, ASN_SEQUENCE + ASN_CONSTRUCTED)
    THEN None({cert.top, tbs.top, version.top, serial.top, signature.top, issuer.top})
    ELSE IssuerScan(mem, issuer.dataPos, EndOf(issuer),
                    Highest({cert.top, tbs.top, version.top, serial.top,
                             signature.top, issuer.top}))))))))

\* what may lie in memory behind a certificate's bytes; further on the
\* model reads 0
HeapBehind == {<<0, 0, 0, 0>>, <<19, 1, 65, 130>>}

\* the text printed when no name is found
CertOk == <<99, 101, 114, 116, 32, 111, 107>>

\* printCertificateName for the certificate der (lines 5832-5860): .cnBytes
\* what getCnFromDer gives, .cn the line printed, .top the highest index of
\* the certificate read; alloc whether new char[] gives memory
printCertificateName(der, behind, alloc) ==
    Bind(getCnFromDer(der \o behind, Len(der)), LAMBDA r :
    IF r.ret = NullPtr THEN [cnBytes |-> NullPtr, cn |-> CertOk, top |-> r.top]
    ELSE IF ~alloc THEN [cnBytes |-> r.ret, cn |-> CertOk, top |-> Highest({r.top, r.ret})]
    ELSE Bind(MemAt(der \o behind, r.ret), LAMBDA n :
         [cnBytes |-> r.ret,
          cn |-> [k \in 1..n |-> MemAt(der \o behind, r.ret + k)],
          top |-> Highest({r.top, r.ret + n})]))

\* AT+CIPSSLCERT: load, list, show one, delete one (lines 5327-5451)
cmd_AT_CIPSSLCERT ==
    LET offset == 13
        show == readNumber(inputBuffer, 14, 0)
        del == readNumber(inputBuffer, 21, 0)
        same == UNCHANGED <<gsCertLoading, PemCertificate, pemAllocated, CAcert>>
        quiet == UNCHANGED <<cnBytes, cn, topRead>>
        \* printCertificateName(number) is called
        named(number) ==
            \E behind \in HeapBehind, alloc \in BOOLEAN :
                \E r \in {printCertificateName(CAcert[number + 1], behind, alloc)} :
                    cnBytes' = r.cnBytes /\ cn' = r.cn /\ topRead' = r.top
    IN  /\ IF inputBufferCnt = offset + 2
           THEN IF CertStoreFull
                THEN out' = <<"Reached the maximum", "ERROR">> /\ same /\ quiet
                ELSE \E alloc \in BOOLEAN :
                        /\ pemAllocated' = alloc
                        /\ PemCertificate' = <<>>
                        /\ CAcert' = CAcert
                        /\ quiet
                        /\ IF alloc
                           THEN gsCertLoading' = TRUE /\ out' = <<"OK", ">">>
                           ELSE gsCertLoading' = gsCertLoading /\ out' = <<"ERROR">>
           ELSE IF At(inputBuffer, offset) = "?" /\ inputBufferCnt = offset + 3
           THEN /\ out' = <<"+CIPSSLCERT", "OK">> /\ same
                /\ IF Len(CAcert) = 0 THEN quiet ELSE named(Len(CAcert) - 1)
           ELSE IF At(inputBuffer, offset) = "?" /\ inputBufferCnt >= 16 /\ inputBufferCnt <= 18
           THEN /\ out' = IF ~show.ret \/ show.output = 0 THEN <<"ERROR">>
                          ELSE IF show.output > Len(CAcert)
                               THEN <<"+CIPSSLCERT:no certificate", "ERROR">>
                          ELSE <<"+CIPSSLCERT", "OK">>
                /\ IF show.ret /\ show.output # 0 /\ show.output <= Len(CAcert)
                   THEN named(show.output - 1) ELSE quiet
                /\ same
           ELSE IF /\ MemEq(Str2Seq("=DELETE,"), inputBuffer, offset)
                   /\ inputBufferCnt >= 22 /\ inputBufferCnt <= 25
           THEN /\ quiet
                /\ IF Len(CAcert) = 0
                   THEN out' = <<"+CIPSSLCERT:no certificates", "ERROR">> /\ same
                   ELSE IF del.ret /\ del.output <= Len(CAcert) /\ del.output # 0
                   THEN /\ CAcert' = CertDelete(CAcert, del.output)
                        /\ out' = <<"+CIPSSLCERT:deleted", "OK">>
                        /\ UNCHANGED <<gsCertLoading, PemCertificate, pemAllocated>>
                   ELSE /\ same
                        \* no number read: line 5440 compares an unset variable
                        /\ \E above \in (IF del.ret THEN {del.output > Len(CAcert)}
                                         ELSE BOOLEAN) :
                              out' = (IF above THEN <<"+CIPSSLCERT=DELETE:no certificate">>
                                      ELSE <<>>) \o <<"ERROR">>
           ELSE out' = <<"ERROR">> /\ same /\ quiet
        /\ maximumCertificates' = maximumCertificates
        /\ certShape' = certShape
        /\ UNCHANGED <<inputBuffer, linkVars, busyVars, tlsVars, eeVars, sslVars, serverVars, armedBytes>>

\* the prerequisite of every mode but the one held by the store is tested
AuthAllowed_NoStore(sslAuth) == ~(sslAuth = 1 /\ ~fingerprintValid)
\* the mode's prerequisite holds (lines 5198-5205)
AuthAllowed(sslAuth) ==
    /\ ~(sslAuth = 1 /\ ~fingerprintValid)
    /\ ~(sslAuth = 2 /\ Len(CAcert) = 0)

\* AT+CIPSSLAUTH: query or set the TLS authentication mode (lines 5182-5223)
cmd_AT_CIPSSLAUTH ==
    LET r == readNumber(inputBuffer, 14, 0)
    IN  /\ IF At(inputBuffer, 13) = "?" /\ inputBufferCnt = 16
           THEN out' = <<"+CIPSSLAUTH", "OK">> /\ gsCipSslAuth' = gsCipSslAuth
           ELSE IF /\ At(inputBuffer, 13) = "="
                   /\ r.ret /\ r.output <= 2 /\ inputBufferCnt = r.offset + 2
           THEN IF AuthAllowed(r.output)
                THEN out' = <<"OK">> /\ gsCipSslAuth' = r.output
                ELSE /\ out' = <<IF r.output = 1 THEN "fp not valid"
                                 ELSE "CA cert not loaded", "ERROR">>
                     /\ gsCipSslAuth' = gsCipSslAuth
           ELSE out' = <<"ERROR">> /\ gsCipSslAuth' = gsCipSslAuth
        /\ UNCHANGED <<inputBuffer, linkVars, certVars, busyVars, fingerprint,
                       fingerprintValid, derVars, eeVars, sslVars, serverVars, armedBytes>>

\* readHex (lines 5817-5827) on a hexadecimal digit
HexLower == <<"a", "b", "c", "d", "e", "f">>
HexUpper == <<"A", "B", "C", "D", "E", "F">>
readHex(c) ==
    IF c \in Digits THEN DigitVal(c)
    ELSE IF \E i \in 1..6 : HexLower[i] = c
         THEN 9 + (CHOOSE i \in 1..6 : HexLower[i] = c)
         ELSE 9 + (CHOOSE i \in 1..6 : HexUpper[i] = c)

\* the for loop of lines 5260-5270: .i and .offset where it ends, .fp the
\* bytes read
RECURSIVE FingerprintLoop(_, _, _)
FingerprintLoop(i, offset, fp) ==
    IF i >= 20 THEN [i |-> i, offset |-> offset, fp |-> fp]
    ELSE IF At(inputBuffer, offset) \notin HexDigits \/ At(inputBuffer, offset + 1) \notin HexDigits
    THEN [i |-> i, offset |-> offset, fp |-> fp]
    ELSE LET b == readHex(At(inputBuffer, offset)) * 16 + readHex(At(inputBuffer, offset + 1))
             got == Append(fp, b)
         IN  IF i < 19 /\ inputBufferCnt = 75
             THEN IF At(inputBuffer, offset + 2) # ":"
                  THEN [i |-> i, offset |-> offset + 3, fp |-> got]
                  ELSE FingerprintLoop(i + 1, offset + 3, got)
             ELSE FingerprintLoop(i + 1, offset + 2, got)

\* AT+CIPSSLFP: show or store the fingerprint (lines 5230-5289)
cmd_AT_CIPSSLFP ==
    LET r == FingerprintLoop(0, 13, <<>>)
    IN  /\ IF At(inputBuffer, 11) = "?" /\ inputBufferCnt = 14
           THEN /\ out' = IF fingerprintValid THEN <<"+CIPSSLFP", "OK">>
                          ELSE <<"not valid", "ERROR">>
                /\ UNCHANGED <<fingerprint, fingerprintValid>>
           ELSE IF /\ At(inputBuffer, 11) = "=" /\ At(inputBuffer, 12) = "\""
                   /\ inputBufferCnt \in {56, 75}
                   /\ r.i = 20 /\ At(inputBuffer, r.offset) = "\""
           THEN /\ fingerprint' = r.fp
                /\ fingerprintValid' = TRUE
                /\ out' = <<"OK">>
           ELSE out' = <<"ERROR">> /\ UNCHANGED <<fingerprint, fingerprintValid>>
        /\ UNCHANGED <<inputBuffer, linkVars, certVars, busyVars, gsCipSslAuth,
                       derVars, eeVars, sslVars, serverVars, armedBytes>>

\* ------------------------------------------- processCommandBuffer's cases

Do_ERROR == Dispatch("CMD_ERROR") /\ cmd_ERROR /\ pc' = "poll"
Do_AT == Dispatch("CMD_AT") /\ cmd_AT /\ pc' = "poll"
Do_CIPMUX == Dispatch("CMD_AT_CIPMUX") /\ cmd_AT_CIPMUX /\ pc' = "poll"
Do_CIPSTART     == Dispatch("CMD_AT_CIPSTART") /\ cmd_AT_CIPSTART
Do_CIPSEND == Dispatch("CMD_AT_CIPSEND") /\ cmd_AT_CIPSEND /\ pc' = "poll"
Do_CIPCLOSE == Dispatch("CMD_AT_CIPCLOSE") /\ cmd_AT_CIPCLOSE /\ pc' = "poll"
Do_CIPRECVMODE == Dispatch("CMD_AT_CIPRECVMODE") /\ cmd_AT_CIPRECVMODE /\ pc' = "poll"
Do_CIPRECVDATA == Dispatch("CMD_AT_CIPRECVDATA") /\ cmd_AT_CIPRECVDATA /\ pc' = "poll"
Do_CIPRECVLEN == Dispatch("CMD_AT_CIPRECVLEN") /\ cmd_AT_CIPRECVLEN /\ pc' = "poll"
Do_CWJAP == Dispatch("CMD_AT_CWJAP") /\ cmd_AT_CWJAP("CMD_AT_CWJAP") /\ pc' = "poll"
Do_CWLAPOPT == Dispatch("CMD_AT_CWLAPOPT") /\ cmd_AT_CWLAPOPT /\ pc' = "poll"
Do_CWLAP == Dispatch("CMD_AT_CWLAP") /\ cmd_AT_CWLAP /\ pc' = "poll"
Do_CIPSSLCERTMAX == Dispatch("CMD_AT_CIPSSLCERTMAX") /\ cmd_AT_CIPSSLCERTMAX /\ pc' = "poll"
Do_CIPSSLCERT == Dispatch("CMD_AT_CIPSSLCERT") /\ cmd_AT_CIPSSLCERT /\ pc' = "poll"
Do_CIPSERVER == Dispatch("CMD_AT_CIPSERVER") /\ cmd_AT_CIPSERVER /\ pc' = "poll"
Do_CIPSERVERMAXCONN == Dispatch("CMD_AT_CIPSERVERMAXCONN") /\ cmd_AT_CIPSERVERMAXCONN /\ pc' = "poll"
Do_CIPSTO == Dispatch("CMD_AT_CIPSTO") /\ cmd_AT_CIPSTO /\ pc' = "poll"
Do_CIPSSLAUTH == Dispatch("CMD_AT_CIPSSLAUTH") /\ cmd_AT_CIPSSLAUTH /\ pc' = "poll"
Do_CIPSSLFP == Dispatch("CMD_AT_CIPSSLFP") /\ cmd_AT_CIPSSLFP /\ pc' = "poll"
Do_CIPSSLSIZE == Dispatch("CMD_AT_CIPSSLSIZE") /\ cmd_AT_CIPSSLSIZE /\ pc' = "poll"

\* ------------------------------------------------------------ the host

\* what the host of the data-sending runs may send
LineStart == Str2Seq("AT+CIPSTART=\"TCP\",\"h\",1\r\n")
\* a send command with its payload right behind it
LineBurst == Str2Seq("AT+CIPSEND=2\r\nxy")
\* a send command whose payload reads like a command line
LineBurstCmd == Str2Seq("AT+CIPSEND=15\r\nAT+CIPSSLCERT\r\n")
LineRecvLen == Str2Seq("AT+CIPRECVLEN=1\r\n")
LineCert == Str2Seq("AT+CIPSSLCERT\r\n")
MenuSend == {LineStart, LineBurst, LineBurstCmd, LineRecvLen, LineCert}

RemoteCloses == \E i \in LinkIds : RemoteClose(i)

NextSend ==
    \/ HostSend(MenuSend)
    \/ RemoteCloses
    \/ LoopPoll
    \/ ReadSendData
    \/ ReadCertLoad
    \/ ReadCommand
    \/ LoopIdle
    \/ Do_ERROR
    \/ Do_CIPSTART
    \/ Do_CIPSEND
    \/ Do_CIPRECVLEN
    \/ Do_CIPSSLCERT

SpecSend == Init /\ [][NextSend]_vars

\* ------------------------------------------------------- SEND_DATA (C1)

\* the first n elements of s, or all of s when it is shorter
Prefix(s, n) == SubSeq(s, 1, IF Len(s) < n THEN Len(s) ELSE n)

\* C1: once AT+CIPSEND=N has been accepted for a live link, the next N bytes
\* that arrive on the serial line, also when they follow the command line
\* immediately, are the N bytes written to the link: while the link is armed
\* the bytes that have arrived since the command are the send buffer
\* followed by the FIFO, none is lost, and a write made for a payload
\* carries exactly the bytes that arrived.
C1_PayloadIsWhatArrived ==
    /\ gsLinkIdReading >= 0 =>
          armedBytes = Prefix(sendBuffer \o rx, clients[gsLinkIdReading].sendLength)
    /\ \A i \in 1..Len(wr) : wr[i].bytes = wr[i].arrived

\* ------------------------------------------------- payload modes (C2)

\* C2: at most one of the two payload modes is active: in every reachable
\* state no link is armed for SEND_DATA while a certificate load is in
\* progress, so neither mode starts while the other is active.
C2_OnePayloadMode == ~(gsLinkIdReading >= 0 /\ gsCertLoading)

\* the text of the certificate command has arrived in full while a link was
\* armed: it went out as that link's payload and started no certificate load
C2_Witness ==
    /\ Len(wr) = 1 /\ wr[1].bytes = LineCert
    /\ gsLinkIdReading < 0 /\ ~gsCertLoading


\* ------------------------------------------------ terminal replies (C3)

\* the number of terminal replies, OK or ERROR, among the tokens printed
RECURSIVE Terminals(_)
Terminals(tokens) ==
    IF tokens = <<>> THEN 0
    ELSE (IF Head(tokens) \in {"OK", "ERROR"} THEN 1 ELSE 0) + Terminals(Tail(tokens))

\* C3: every dispatched command line yields exactly one terminal reply, OK or
\* ERROR, never zero and never more than one, whatever the command code and
\* the argument tail the matcher lets through.
C3_OneTerminalReply == ran # "" => Terminals(out) = 1


\* ----------------------------------------------- the certificate runs

\* a PEM object of 102 characters
LinePem == Str2Seq("-----BEGIN CERTIFICATE-----\nMIIBMIIBMIIBMIIBMIIBMIIBMIIBMIIBMIIBMIIBMIIBMIIB\n-----END CERTIFICATE-----")
\* 112 characters of base64 text
LineFill == Str2Seq("MIIBMIIBMIIBMIIBMIIBMIIBMIIBMIIBMIIBMIIBMIIBMIIBMIIBMIIBMIIBMIIBMIIBMIIBMIIBMIIBMIIBMIIBMIIBMIIBMIIBMIIBMIIBMIIB")
\* a tab, a backslash, a NUL, a SOH and then a character the filter refuses
LineOdd == <<"M", "\t", "\\", "Q", NUL, SOH, "*", "Z">>
MenuCert == {LineCert, LinePem, LineFill, LineOdd}

NextCert ==
    \/ HostSend(MenuCert)
    \/ LoopPoll
    \/ ReadCertLoad
    \/ ReadCommand
    \/ LoopIdle
    \/ Do_ERROR
    \/ Do_CIPSSLCERT

SpecCert == InitFiles /\ [][NextCert]_vars

LineCertMax1 == Str2Seq("AT+CIPSSLCERTMAX=1\r\n")
LineDelete == Str2Seq("AT+CIPSSLCERT=DELETE,1\r\n")
MenuStore == {LineCert, LineCertMax1, LineDelete}

NextStore ==
    \/ HostSend(MenuStore)
    \/ LoopPoll
    \/ ReadCertLoad
    \/ ReadCommand
    \/ LoopIdle
    \/ Do_CIPSSLCERT
    \/ Do_CIPSSLCERTMAX

SpecStore == InitFiles /\ [][NextStore]_vars


\* --------------------------------------------- CERT_LOAD (C4, C5, C9)

\* the step reads a byte in CERT_LOAD
CertByteRead ==
    /\ gsCertLoading /\ gsLinkIdReading < 0
    /\ ReadGuard
    /\ Len(rx') <= Len(rx)

\* the load is aborted by the step
CertAbort ==
    /\ Terminals(out') = 1 /\ out'[Len(out')] = "ERROR"
    /\ ~gsCertLoading'
    /\ CAcert' = CAcert

\* C4: when the end marker has been detected in CERT_LOAD (the module
\* answers "Read n bytes"), the mode is COMMAND as soon as that byte has been
\* processed, for every outcome of the parse.
C4_EndRevertsToCommand == (out # <<>> /\ out[1] = "Read") => ~gsCertLoading

\* the allow-list as the claim gives it
C5_ListClaimed == Digits \cup UpperCase \cup LowerCase \cup {"/", "+", "=", "-", " ", "\r", "\n"}

C5_ListPassed == C5_ListClaimed \cup {"\\"} \cup ControlBytes

Entries(store) == {store[i] : i \in 1..Len(store)}

\* C9: a loaded certificate is rejected as a duplicate, leaving the store
\* unchanged, exactly when its DER bytes are byte-for-byte identical (same
\* length, same content) to an entry already in the store.
C9_DuplicateIffIdentical ==
    [][importedDer' # <<>> =>
          /\ ("Tried to load already existing certificate" \in Entries(out'))
                <=> (importedDer' \in Entries(CAcert))
          /\ importedDer' \in Entries(CAcert) => CAcert' = CAcert]_vars


\* ------------------------------------------------ the store (C8, C10)

\* C8: in every reachable state the number of certificates in the store is
\* at most the configured maximum, under any sequence of loads, deletions
\* and AT+CIPSSLCERTMAX changes.
C8_StoreWithinMaximum == Len(CAcert) <= maximumCertificates

\* C10: when the store already holds maximumCertificates entries, the
\* certificate-load command is refused with ERROR, the mode stays COMMAND
\* and the store is unchanged.
C10_FullStoreRefusesLoad ==
    [][/\ ran' = "CMD_AT_CIPSSLCERT"
       /\ inputBufferCnt = 15
       /\ Len(CAcert) >= maximumCertificates
       => /\ Terminals(out') = 1 /\ out'[Len(out')] = "ERROR"
          /\ ~gsCertLoading' /\ gsLinkIdReading' < 0
          /\ CAcert' = CAcert]_vars

\* with a maximum of 2 and 2 certificates stored, the load command has just
\* been refused
C10_Witness ==
    /\ ran = "CMD_AT_CIPSSLCERT"
    /\ out = <<"Reached the maximum", "ERROR">>
    /\ maximumCertificates = StartMaxCerts /\ Len(CAcert) = StartMaxCerts
    /\ ~gsCertLoading


\* ------------------------------------------------ the busy runs (C6, C7)

LineJoin == Str2Seq("AT+CWJAP=\"a\",\"b\"\r\n")
LineScan == Str2Seq("AT+CWLAP\r\n")
LineOpt2 == Str2Seq("AT+CWLAPOPT=2,1\r\n")
MenuBusy == {LineJoin, LineScan, LineOpt2}

NextBusy ==
    \/ HostSend(MenuBusy)
    \/ LoopPoll
    \/ ReadCommand
    \/ LoopConnecting
    \/ LoopBusy
    \/ LoopIdle
    \/ Do_ERROR
    \/ Do_CWJAP
    \/ Do_CWLAPOPT
    \/ Do_CWLAP
    \/ printScanResult

SpecBusy == Init /\ [][NextBusy]_vars

\* the association attempt comes to a result
AssociationEnds == LoopConnecting /\ ~gsFlag_Connecting'

\* loop() is called again and again and runs to its end, the SDK calls the
\* scan callback, and an association attempt comes to a result
SpecBusyFair ==
    /\ SpecBusy
    /\ WF_vars(LoopPoll) /\ WF_vars(ReadCommand) /\ WF_vars(LoopConnecting)
    /\ WF_vars(LoopBusy) /\ WF_vars(LoopIdle)
    /\ WF_vars(Do_ERROR \/ Do_CWJAP \/ Do_CWLAPOPT \/ Do_CWLAP)
    /\ WF_vars(printScanResult)
    /\ SF_vars(AssociationEnds)

\* C6: while the busy flag is set no command handler runs: what has
\* accumulated in the command buffer when loop() reaches its end is answered
\* with the busy notice and discarded; and at most one asynchronous operation,
\* association or scan, is outstanding at any time.
C6_BusyRunsNoHandler ==
    /\ [](~(gsFlag_Connecting /\ scanPending))
    /\ [][/\ gsFlag_Busy => ran' = ""
          /\ gsFlag_Busy /\ gsFlag_Busy' /\ pc # "poll" /\ pc' = "poll"
             => /\ inputBufferCnt' = 0
                /\ out' = IF inputBufferCnt # 0 THEN <<"busy p...">> ELSE <<>>]_vars

\* while a scan is outstanding the complete line AT+CWJAP="a","b" has been
\* read, answered with the busy notice and discarded
C6_Witness ==
    /\ gsFlag_Busy /\ scanPending /\ ~gsFlag_Connecting
    /\ out = <<"busy p...">>
    /\ inputBufferCnt = 0 /\ Prefix(inputBuffer, Len(LineJoin)) = LineJoin

\* C7: every busy period ends: after AT+CWJAP or AT+CWLAP has set the busy
\* flag, the flag is eventually cleared, for every value of the scan options
\* set with AT+CWLAPOPT.
C7_BusyEnds == gsFlag_Busy ~> ~gsFlag_Busy


\* ----------------------------------------- deleting a certificate (C11)

\* the settings' maximum and the number of certificate files for a store of
\* three certificates
DeleteMaxCerts == 3
DeleteFiles == 3
\* the largest index the host asks to delete
DeleteMaxK == 4

\* the state after setup() with up to DeleteFiles certificate files
InitDelete ==
    \E store \in setupStoresMax(<<>>, DeleteFiles, DeleteMaxCerts) :
        InitSettings(store, DeleteMaxCerts)

\* the line AT+CIPSSLCERT=DELETE,k
DeleteLine(k) == Str2Seq("AT+CIPSSLCERT=DELETE,") \o <<DigitSeq[k + 1]>> \o Str2Seq("\r\n")
MenuDelete == {DeleteLine(k) : k \in 0..DeleteMaxK}

NextDelete ==
    \/ HostSend(MenuDelete)
    \/ LoopPoll
    \/ ReadCommand
    \/ LoopIdle
    \/ Do_CIPSSLCERT

SpecDelete == InitDelete /\ [][NextDelete]_vars

\* the handler runs on the line AT+CIPSSLCERT=DELETE,k
DeleteRuns(k) ==
    /\ ran' = "CMD_AT_CIPSSLCERT"
    /\ SubSeq(inputBuffer, 1, inputBufferCnt) = DeleteLine(k)

\* C11: AT+CIPSSLCERT=DELETE,k with 1 <= k <= size removes exactly the k-th
\* entry and leaves the remaining entries in their previous relative order;
\* on an empty store, or with k = 0 or k > size, the store is unchanged.
C11_DeleteRemovesKth ==
    [][\A k \in 0..DeleteMaxK :
          DeleteRuns(k) =>
             IF 1 <= k /\ k <= Len(CAcert)
             THEN /\ Len(CAcert') = Len(CAcert) - 1
                  /\ \A i \in 1..(k - 1) : CAcert'[i] = CAcert[i]
                  /\ \A i \in k..Len(CAcert') : CAcert'[i] = CAcert[i + 1]
             ELSE CAcert' = CAcert]_vars

\* the second of three different certificates has just been deleted
C11_Witness ==
    /\ ran = "CMD_AT_CIPSSLCERT"
    /\ out = <<"+CIPSSLCERT:deleted", "OK">>
    /\ SubSeq(inputBuffer, 1, Len(DeleteLine(2))) = DeleteLine(2)
    /\ Len(CAcert) = 2 /\ CAcert[1] # CAcert[2]


\* ------------------------------------------ TLS authentication mode (C12)

LineAuth0 == Str2Seq("AT+CIPSSLAUTH=0\r\n")
LineAuth1 == Str2Seq("AT+CIPSSLAUTH=1\r\n")
LineAuth2 == Str2Seq("AT+CIPSSLAUTH=2\r\n")
LineAuth3 == Str2Seq("AT+CIPSSLAUTH=3\r\n")
LineFp == Str2Seq("AT+CIPSSLFP=\"00112233445566778899aAbBcCdDeEfF01234567\"\r\n")
LineFpShort == Str2Seq("AT+CIPSSLFP=\"0011\"\r\n")
MenuAuth == {LineAuth0, LineAuth1, LineAuth2, LineAuth3, LineFp, LineFpShort}

NextAuth ==
    \/ HostSend(MenuAuth)
    \/ LoopPoll
    \/ ReadCommand
    \/ LoopIdle
    \/ Do_CIPSSLAUTH
    \/ Do_CIPSSLFP

SpecAuth == InitFiles /\ [][NextAuth]_vars

\* the handler runs on the line AT+CIPSSLAUTH=m
AuthRuns(m) ==
    /\ ran' = "CMD_AT_CIPSSLAUTH"
    /\ SubSeq(inputBuffer, 1, inputBufferCnt) =
          Str2Seq("AT+CIPSSLAUTH=") \o <<DigitSeq[m + 1]>> \o Str2Seq("\r\n")

\* C12: AT+CIPSSLAUTH changes the TLS authentication mode to 1 only if a
\* valid fingerprint has been loaded and to 2 only if the certificate store
\* is non-empty; when the prerequisite does not hold the command replies
\* ERROR and the mode is unchanged.
C12_AuthNeedsPrerequisite ==
    [][/\ (gsCipSslAuth' # gsCipSslAuth /\ gsCipSslAuth' = 1) => fingerprintValid
       /\ (gsCipSslAuth' # gsCipSslAuth /\ gsCipSslAuth' = 2) => Len(CAcert) > 0
       /\ (AuthRuns(1) /\ ~fingerprintValid) \/ (AuthRuns(2) /\ Len(CAcert) = 0)
          => /\ Terminals(out') = 1 /\ out'[Len(out')] = "ERROR"
             /\ gsCipSslAuth' = gsCipSslAuth]_vars

\* mode 1 has been set after a fingerprint was loaded
C12_Witness ==
    /\ ran = "CMD_AT_CIPSSLAUTH" /\ out = <<"OK">>
    /\ gsCipSslAuth = 1 /\ fingerprintValid
    /\ fingerprint[11] = 170 /\ fingerprint[16] = 255


\* ------------------------------------------- the matcher (C13, C14, C15)

\* what follows the text of a table entry in the lines the matcher is given
MatchTails ==
    {Str2Seq(t) : t \in {"", "?", "=", "?1", "=1", "1", "x", "X", "?\r\n", "??", ","}}
CRLF == Str2Seq("\r\n")
\* the line AT, the text, the tail, CR LF
MatchLine(text, tail) == Str2Seq("AT") \o text \o tail \o CRLF
MatchLines ==
    {MatchLine(commandList[i].text, t) : i \in 1..Len(commandList), t \in MatchTails}

\* loop() has read a whole line into the input buffer
InitMatch ==
    \E line \in MatchLines :
        /\ tx = <<>> /\ sent = 1 /\ rx = <<>>
        /\ pc = "cmd" /\ lineCompleted = TRUE
        /\ inputBuffer = line /\ inputBufferCnt = Len(line)
        /\ certShape = NoShape
        /\ InitGlobals(<<>>, StartMaxCerts)

\* processCommandBuffer looks the line up
Match ==
    /\ CommandDue /\ ran = ""
    /\ ran' = findCommand(inputBuffer, inputBufferCnt)
    /\ UNCHANGED <<hostVars, loopVars, bufVars, linkVars, certVars, busyVars,
                   tlsVars, derVars, eeVars, sslVars, serverVars, out, wr, importedDer, armedBytes>>

NextMatch == Match

SpecMatch == InitMatch /\ [][NextMatch]_vars

\* the line in the input buffer
TheLine == SubSeq(inputBuffer, 1, inputBufferCnt)
\* the text is at the start of the sequence
StartsWith(seq, text) == Len(seq) >= Len(text) /\ SubSeq(seq, 1, Len(text)) = text
\* the entries of one mode
EntriesOfMode(mode) == {i \in 1..Len(commandList) : commandList[i].mode = mode}

\* C13: for every QUERY_SET table entry with prefix P, findCommand returns
\* that entry's code for the line AT+P+'?'+CR LF, and returns ERROR for every
\* line AT+P+'?'+t+CR LF with non-empty t.
C13_QueryExactLength ==
    ran # "" =>
       \A i \in EntriesOfMode("MODE_QUERY_SET") :
          LET P == commandList[i].text
          IN  /\ TheLine = MatchLine(P, Str2Seq("?")) => ran = commandList[i].cmd
              /\ \A t \in MatchTails :
                    (Len(t) > 1 /\ t[1] = "?" /\ TheLine = MatchLine(P, t))
                    => ran = "CMD_ERROR"

\* a query with trailing text has been answered with ERROR
C13_Witness ==
    /\ ran = "CMD_ERROR"
    /\ TheLine = Str2Seq("AT+CIPSTA_CUR?1\r\n")

\* the scan of the table reaches entry i for the line: no entry before it
\* returns
RECURSIVE ScanReaches(_, _, _)
ScanReaches(input, inpLen, i) ==
    IF i = 1 THEN TRUE
    ELSE LET e == commandList[i - 1]
             n == Len(e.text)
             c == At(input, n + 2)
         IN  /\ ScanReaches(input, inpLen, i - 1)
             /\ ~(/\ MemEq(e.text, input, 2)
                  /\ CASE e.mode = "MODE_EXACT_MATCH" -> ExactLength(n, inpLen)
                       [] e.mode = "MODE_QUERY_SET" -> c = "=" \/ c = "?"
                       [] e.mode = "MODE_NO_CHECKING" -> NoCheckingAccepts(c))

PrefixPairs ==
    {p \in (1..Len(commandList)) \X (1..Len(commandList)) :
        /\ p[1] # p[2]
        /\ StartsWith(commandList[p[2]].text, commandList[p[1]].text)}

\* C15 as claimed: the command table places every longer prefix before each
\* shorter entry that is a textual prefix of it, whatever longer name the
\* line carries.
C15_LongerPlacedFirst ==
    \A p \in PrefixPairs :
       StartsWith(TheLine, Str2Seq("AT") \o commandList[p[2]].text) => p[2] < p[1]

\* C15: a line carrying the longer command name is never resolved to the
\* shorter command whose text begins it: a line beginning AT+CIPSTART never
\* yields the CIPSTA code, AT+CIPSERVERMAXCONN never CIPSERVER,
\* AT+CIPCLOSEMODE never CIPCLOSE, AT+UART_CUR never UART.
C15_LongerNeverShorter ==
    ran # "" =>
       \A p \in PrefixPairs :
          StartsWith(TheLine, Str2Seq("AT") \o commandList[p[2]].text)
          => ran # commandList[p[1]].cmd

\* a line with the longer name AT+CIPSERVERMAXCONN, whose shorter entry
\* +CIPSERVER comes first in the table, has been resolved
C15_Witness ==
    /\ ran = "CMD_AT_CIPSERVERMAXCONN"
    /\ TheLine = Str2Seq("AT+CIPSERVERMAXCONN=1\r\n")
    /\ \E p \in PrefixPairs :
          /\ p[1] < p[2]
          /\ commandList[p[2]].cmd = "CMD_AT_CIPSERVERMAXCONN"


\* ------------------------------------------------ line termination (C16)

LineAt == Str2Seq("AT\r\n")
LineMux == Str2Seq("AT+CIPMUX=1\r\n")
\* a line ended by LF alone
LineMuxLf == Str2Seq("AT+CIPMUX=1\n")
LineAtLf == Str2Seq("ATE\n")
\* a bare CR inside a line
LineMuxCr == Str2Seq("AT+CIPMUX=1\rAT\r\n")
\* a line that does not start with AT
LineNoAt == Str2Seq("aT+CIPMUX=1\r\n")
MenuLine == {LineAt, LineMux, LineMuxLf, LineAtLf, LineMuxCr, LineNoAt}

NextLine ==
    \/ HostSend(MenuLine)
    \/ LoopPoll
    \/ ReadCommand
    \/ LoopIdle
    \/ Do_ERROR
    \/ Do_AT
    \/ Do_CIPMUX

SpecLine == Init /\ [][NextLine]_vars

\* the sequence ends with the text
EndsWith(seq, text) ==
    Len(seq) >= Len(text) /\ SubSeq(seq, Len(seq) - Len(text) + 1, Len(seq)) = text

\* C16: a command handler is invoked only for a buffered line that starts
\* with AT and ends with CR LF: a bare CR never completes a line, and a line
\* completed by LF without a preceding CR is answered with ERROR without
\* running any handler.
C16_HandlerNeedsAtCrLf ==
    [][/\ ran' \notin {"", "CMD_ERROR"}
          => StartsWith(TheLine, Str2Seq("AT")) /\ EndsWith(TheLine, CRLF)
       /\ (lineCompleted' /\ ~lineCompleted) => (rx # <<>> /\ Head(rx) = "\n")
       /\ (pc = "cmd" /\ pc' = "poll" /\ lineCompleted /\ ~EndsWith(TheLine, CRLF))
          => ran' = "CMD_ERROR" /\ out' = <<"ERROR">>]_vars

\* a set command ended by LF alone has been answered with ERROR
C16_Witness ==
    /\ ran = "CMD_ERROR" /\ out = <<"ERROR">>
    /\ StartsWith(inputBuffer, LineMuxLf)
    /\ gsCipMux = 0


\* ------------------------------------------- accepting peers (C17, C18)

\* multiplexing on and a server listening on the default port
LineServe == Str2Seq("AT+CIPMUX=1\r\nAT+CIPSERVER=1\r\n")
\* the host sets the server up and is silent from then on
MenuServer == IF sent = 0 THEN {LineServe} ELSE {}

PeersConnect == \E j \in ServerIds : PeerConnects(j)
IdleLongs == \E i \in LinkIds : IdleLong(i)

NextServer ==
    \/ HostSend(MenuServer)
    \/ PeersConnect
    \/ RemoteCloses
    \/ IdleLongs
    \/ LoopPoll
    \/ ReadCommand
    \/ LoopIdle
    \/ Do_CIPMUX
    \/ Do_CIPSERVER

SpecServer == Init /\ [][NextServer]_vars

\* the poll has accepted a peer into slot id
Accepted(id) == \E k \in 1..Len(out') : out'[k] = ConnectToken(id)

\* C17: a peer accepted on a listening socket is always placed in the
\* lowest-index free link slot: after the poll that accepted it into slot id
\* no slot below id is free, so that five peers accepted into an empty table
\* get ids 0..4 in that order and the peer accepted after link 2 is released
\* gets id 2.
C17_LowestFreeSlot ==
    [][\A id \in LinkIds :
          Accepted(id) => \A j \in 0..(id - 1) : clients'[j].client]_vars


\* multiplexing on, at most one server connection, a server on the default
\* port
LineLimit == Str2Seq("AT+CIPMUX=1\r\nAT+CIPSERVERMAXCONN=1\r\nAT+CIPSERVER=1\r\n")
\* the server is stopped and started again on another port
LineMove == Str2Seq("AT+CIPSERVER=0\r\nAT+CIPSERVER=1,334\r\n")
\* the host sets the server up and later moves it
MenuLimit == IF sent = 0 THEN {LineLimit} ELSE {LineMove}

NextLimit ==
    \/ HostSend(MenuLimit)
    \/ PeersConnect
    \/ RemoteCloses
    \/ IdleLongs
    \/ LoopPoll
    \/ ReadCommand
    \/ LoopIdle
    \/ Do_CIPMUX
    \/ Do_CIPSERVER
    \/ Do_CIPSERVERMAXCONN

SpecLimit == Init /\ [][NextLimit]_vars

\* the links that hold a live connection a server has accepted
LiveServerLinks(cl) ==
    {i \in LinkIds : cl[i].client /\ cl[i].viaServer /\ cl[i].connected}

\* C18: a new peer is accepted on a listening socket only while the number
\* of live server-accepted connections is below the configured limit
\* (AT+CIPSERVERMAXCONN, 1..5) and a link slot is free: after a poll that
\* accepted a peer the live server-accepted connections, the new one
\* included, are at most the limit, and the slot the peer got was free.
C18_AcceptBelowLimit ==
    [][\A id \in LinkIds :
          Accepted(id) =>
             /\ Cardinality(LiveServerLinks(clients')) <= gsServersMaxConn
             /\ ~clients[id].client \/ ~clients[id].connected \/ clients[id].idle]_vars


\* ------------------------------------------- sending on a dead link (C20)

\* the link the AT+CIPSEND line in the input buffer names
CipsendTarget ==
    IF At(inputBuffer, 11) \in Digits /\ At(inputBuffer, 12) = ","
    THEN DigitVal(At(inputBuffer, 11)) ELSE 0

\* C20: AT+CIPSEND on a link whose slot is unused or whose connection is no
\* longer alive replies ERROR, arms no link and leaves the mode in COMMAND.
C20_SendNeedsLiveLink ==
    [][/\ ran' = "CMD_AT_CIPSEND"
       /\ CipsendTarget \in LinkIds
       /\ ~clients[CipsendTarget].client \/ ~clients[CipsendTarget].connected
       => /\ Terminals(out') = 1 /\ out'[Len(out')] = "ERROR"
          /\ gsLinkIdReading' < 0 /\ ~gsCertLoading'
          /\ sendBuffer' = sendBuffer]_vars

\* the send command has been refused on a link whose remote has closed and
\* which the poll has not released yet
C20_Witness ==
    /\ ran = "CMD_AT_CIPSEND"
    /\ out = <<"link is not valid", "ERROR">>
    /\ clients[0].client /\ ~clients[0].connected
    /\ gsLinkIdReading < 0


\* -------------------------------------------- releasing dead links (C19)

MenuPoll == {LineStart, LineAt}

RemoteDatas == \E i \in LinkIds : RemoteData(i)

NextPoll ==
    \/ HostSend(MenuPoll)
    \/ RemoteDatas
    \/ RemoteCloses
    \/ LoopPoll
    \/ ReadCommand
    \/ LoopIdle
    \/ Do_AT
    \/ Do_CIPSTART

SpecPoll == Init /\ [][NextPoll]_vars

\* the step is the poll of loop()
PollStep == pc = "poll" /\ pc' = "read"
\* the links the step releases
Released == {i \in LinkIds : clients[i].client /\ ~clients'[i].client}
\* the number of CLOSED notifications in what has been printed
RECURSIVE Closures(_)
Closures(o) ==
    IF o = <<>> THEN 0 ELSE (IF Head(o) = "CLOSED" THEN 1 ELSE 0) + Closures(Tail(o))

\* C19: the poll releases a link slot because of a dead remote, emitting
\* exactly one CLOSED notification for it, only when the connection holds no
\* unread received bytes (none had arrived, or the poll has just handed them
\* to the host); a link whose remote has disconnected but which still holds
\* unread bytes stays allocated until those bytes have been consumed.
C19_DeadLinkKeepsUnread ==
    [][PollStep =>
          /\ Closures(out') = Cardinality(Released)
          /\ \A i \in Released :
                /\ ~clients[i].connected
                /\ clients[i].avail = 0 \/ \E k \in 1..Len(out') : out'[k] = "+IPD"
          /\ \A i \in LinkIds :
                (clients[i].client /\ ~clients[i].connected /\ clients[i].avail > 0)
                => \/ i \in Released /\ \E k \in 1..Len(out') : out'[k] = "+IPD"
                   \/ clients'[i].client /\ clients'[i].avail = clients[i].avail]_vars

\* the remote of link 0 has closed, the poll could not hand the unread byte
\* to the host, and the link is still allocated
C19_Witness ==
    /\ pc = "read" /\ out = <<"+IPD,out of mem">>
    /\ clients[0].client /\ ~clients[0].connected /\ clients[0].avail > 0


\* ------------------------------------------- opening a connection (C21)

\* one certificate file has been found at start
InitStart == InitStore(<<DerA>>)

LineMuxStart == Str2Seq("AT+CIPMUX=1\r\nAT+CIPSTART=0,\"TCP\",\"h\",1\r\n")
\* chain verification is chosen and the only certificate deleted
LineAuthDelete == Str2Seq("AT+CIPSSLAUTH=2\r\nAT+CIPSSLCERT=DELETE,1\r\n")
LineStartSsl == Str2Seq("AT+CIPSTART=\"SSL\",\"h\",1\r\n")
LineStartUdp == Str2Seq("AT+CIPSTART=\"UDP\",\"h\",1\r\n")
LineStartPort == Str2Seq("AT+CIPSTART=\"TCP\",\"h\",65536\r\n")
LineStartMux0 == Str2Seq("AT+CIPSTART=0,\"TCP\",\"h\",1\r\n")
MenuStart ==
    IF sent = 0 THEN {LineMuxStart, LineAuthDelete, LineStart}
    ELSE {LineStart, LineStartSsl, LineStartUdp, LineStartPort, LineStartMux0}

NextStart ==
    \/ HostSend(MenuStart)
    \/ LoopPoll
    \/ ReadCommand
    \/ LoopIdle
    \/ Do_CIPMUX
    \/ Do_CIPSTART
    \/ Do_CIPSSLAUTH
    \/ Do_CIPSSLCERT

SpecStart == InitStart /\ [][NextStart]_vars

\* AT+CIPSTART has just run and has answered ERROR
StartFails == ran' = "CMD_AT_CIPSTART" /\ \E k \in 1..Len(out') : out'[k] = "ERROR"

\* C21: an AT+CIPSTART that ends in ERROR, for whatever reason, leaves the
\* connection table exactly as it was: no slot becomes occupied, a connected
\* target link is untouched, and the connection object the handler had made
\* is released.
C21_FailedStartKeepsTable ==
    [][StartFails => clients' = clients /\ orphans' = orphans]_vars

\* a connect that failed after the object had been made has answered ERROR
\* CLOSED; no slot is occupied and the object is gone
C21_Witness ==
    /\ ran = "CMD_AT_CIPSTART"
    /\ out = <<"connect fail", "ERROR", "CLOSED">>
    /\ orphans = 0
    /\ \A i \in LinkIds : ~clients[i].client


\* ------------------------------------------- lines with bad syntax (C22)

\* the second argument is missing
LineOptShort == Str2Seq("AT+CWLAPOPT=1\r\n")
\* the argument is out of range
LineMuxBad == Str2Seq("AT+CIPMUX=2\r\n")
LineSizeBad == Str2Seq("AT+CIPSSLSIZE=100\r\n")
\* no such command
LineUnknown == Str2Seq("AT+XYZ\r\n")
MenuSyntax == {LineOptShort, LineMuxBad, LineSizeBad, LineUnknown, LineFpShort}

NextSyntax ==
    \/ HostSend(MenuSyntax)
    \/ LoopPoll
    \/ ReadCommand
    \/ LoopIdle
    \/ Do_ERROR
    \/ Do_CIPMUX
    \/ Do_CWLAPOPT
    \/ Do_CIPSSLSIZE
    \/ Do_CIPSSLFP

SpecSyntax == Init /\ [][NextSyntax]_vars

\* a line has just been answered with ERROR and nothing else
Rejected == ran' # "" /\ out' = <<"ERROR">>

\* C22: a command line rejected for its syntax is answered with ERROR, the
\* command buffer is cleared and no engine state changes: mode, settings,
\* scan options, fingerprint, connection table and certificate store are as
\* they were before the line.
C22_RejectedLineChangesNothing ==
    [][Rejected =>
          /\ inputBufferCnt' = 0
          /\ UNCHANGED <<linkVars, certVars, busyVars, tlsVars, gsCipSslSize,
                         servers, gsServersMaxConn, gsServerConnTimeout>>]_vars


\* ------------------------------------- the certificates decoded (C23-C25)

\* how a length is written: in one byte, behind 0x82, behind 0x81, or
\* left indefinite
Forms == {"short", "x82", "x81", "x80"}
LenBytes(form, n) ==
    CASE form = "short" -> <<n>>
      [] form = "x82" -> <<130, n \div 256, n % 256>>
      [] form = "x81" -> <<129, n>>
      [] form = "x80" -> <<128>>
TLV(tag, form, content) == <<tag>> \o LenBytes(form, Len(content)) \o content

OidOrganization == <<85, 4, 10>>
RdnCn == [oid |-> OidCommonName, tag |-> ASN_PRINTABLE_STRING, text |-> <<65, 66>>]
RdnO == [oid |-> OidOrganization, tag |-> ASN_PRINTABLE_STRING, text |-> <<79>>]
\* a commonName whose value is a UTF8String (tag 12)
RdnCnUtf8 == [oid |-> OidCommonName, tag |-> 12, text |-> <<67>>]
RdnLists == {<<>>, <<RdnCn>>, <<RdnO>>, <<RdnO, RdnCn>>, <<RdnCnUtf8>>, <<RdnO, RdnO>>}

\* a RelativeDistinguishedName with one AttributeValueAssertion
Rdn(r, form) ==
    TLV(ASN_SET + ASN_CONSTRUCTED, "short",
        TLV(ASN_SEQUENCE + ASN_CONSTRUCTED, "short",
            TLV(ASN_OBJECT_IDENTIFER, "short", r.oid) \o TLV(r.tag, form, r.text)))

RECURSIVE Name(_, _)
Name(rdns, form) ==
    IF rdns = <<>> THEN <<>> ELSE Rdn(Head(rdns), form) \o Name(Tail(rdns), form)

AlgorithmIdentifier == TLV(ASN_SEQUENCE + ASN_CONSTRUCTED, "short", <<6, 1, 42>>)

\* an X.509 certificate of shape sh: the forms of the lengths of the
\* Certificate, the TBSCertificate, the issuer and the attribute values,
\* whether the version is written (it is left out in a v1 certificate), and
\* the issuer's names
Certificate(sh) ==
    TLV(ASN_SEQUENCE + ASN_CONSTRUCTED, sh.outer,
        TLV(ASN_SEQUENCE + ASN_CONSTRUCTED, sh.tbs,
            (IF sh.version
             THEN TLV(ASN_CONTEXT_SPECIFIC + ASN_CONSTRUCTED, "short", <<2, 1, 2>>)
             ELSE <<>>)
            \o TLV(ASN_INTEGER, "short", <<1>>)
            \o AlgorithmIdentifier
            \o TLV(ASN_SEQUENCE + ASN_CONSTRUCTED, sh.issuer, Name(sh.rdns, sh.value))
            \o TLV(ASN_SEQUENCE + ASN_CONSTRUCTED, "short", <<>>))
        \o AlgorithmIdentifier
        \o TLV(3, "short", <<0>>))

\* the bytes in the store: the certificate, one byte of it replaced when
\* sh.patch says so, and only its first sh.cut bytes when sh.cut is not -1
Built(sh) ==
    LET c == Certificate(sh)
        p == IF sh.patch = <<>> THEN c ELSE [c EXCEPT ![sh.patch[1]] = sh.patch[2]]
    IN  IF sh.cut < 0 THEN p ELSE SubSeq(p, 1, sh.cut)

Whole ==
    [outer : Forms, tbs : Forms, issuer : Forms, value : Forms,
     version : BOOLEAN, rdns : RdnLists, cut : {-1}, patch : {<<>>}]
PlainShape ==
    [outer |-> "short", tbs |-> "short", issuer |-> "short", value |-> "short",
     version |-> TRUE, rdns |-> <<RdnO, RdnCn>>, cut |-> -1, patch |-> <<>>]
PatchBytes == {127, 128, 129, 130, 255}
Damaged ==
    {[PlainShape EXCEPT !.cut = k] : k \in 0..(Len(Certificate(PlainShape)) - 1)}
    \cup {[PlainShape EXCEPT !.patch = <<i, b>>] :
             i \in 1..Len(Certificate(PlainShape)), b \in PatchBytes}
LineShow1 == Str2Seq("AT+CIPSSLCERT?1\r\n")

\* the store holds one certificate, of shape sh, and loop() has read the
\* line that asks for its name
InitShape(sh) ==
    /\ tx = <<>> /\ sent = 1 /\ rx = <<>>
    /\ pc = "cmd" /\ lineCompleted = TRUE
    /\ inputBuffer = LineShow1 /\ inputBufferCnt = Len(LineShow1)
    /\ certShape = sh
    /\ InitGlobals(<<Built(sh)>>, StartMaxCerts)

InitDer ==
    \/ \E sh \in Whole : InitShape(sh)
    \/ \E sh \in Damaged : InitShape(sh)

NextDer == Do_CIPSSLCERT

SpecDer == InitDer /\ [][NextDer]_vars

\* the certificate's name has been asked for and getCnFromDer has run
Decoded == ran = "CMD_AT_CIPSSLCERT" /\ certShape # NoShape
\* the certificate in the store
TheDer == CAcert[1]

\* the issuer's first name with the commonName identifier, as a set
FirstCn(rdns) ==
    {i \in 1..Len(rdns) :
        /\ rdns[i].oid = OidCommonName
        /\ \A j \in 1..(i - 1) : rdns[j].oid # OidCommonName}

\* a length on the decoder's way is written in a form other than the one
\* byte below 0x80 or 0x82
OddLength(sh) ==
    \/ {sh.outer, sh.tbs, sh.issuer} \cap {"x81", "x80"} # {}
    \/ FirstCn(sh.rdns) # {} /\ sh.value \in {"x81", "x80"}

\* C23: the header decode fails, and getCnFromDer returns none, whenever the
\* length byte of a TLV it decodes is neither below 0x80 nor equal to 0x82,
\* 0x81 and 0x80 included.
C23_OddLengthFails ==
    Decoded =>
       /\ (certShape \in Whole /\ certShape.version /\ OddLength(certShape))
             => cnBytes = NullPtr
       /\ (Len(TheDer) >= 2 /\ TheDer[2] >= 128 /\ TheDer[2] # 130)
             => /\ readHeader(TheDer, 0, Len(TheDer)).dataPos = 0
                /\ cnBytes = NullPtr

\* the issuer's length is written behind 0x81 in an otherwise plain
\* certificate with a commonName, and no name has been found
C23_Witness ==
    /\ Decoded
    /\ certShape = [PlainShape EXCEPT !.issuer = "x81"]
    /\ cnBytes = NullPtr /\ cn = CertOk

\* C24: whenever a TLV met on the way has a header or a declared content
\* length that reaches beyond the structure around it, getCnFromDer returns
\* none, and no byte at an index at or beyond the given length is read.
C24_ReadsStayInside ==
    Decoded => topRead < Len(TheDer)

\* C25: for a well-formed certificate whose issuer has a name with the
\* identifier 2.5.4.3 and a PrintableString value, getCnFromDer returns the
\* value with its length before it: the first byte is the length, the bytes
\* after it are the text, whether lengths are written in one byte or behind
\* 0x82; names with other identifiers are skipped, and none is returned when
\* no name matches.
C25_CommonNameFound ==
    (/\ Decoded
     /\ certShape \in Whole
     /\ {certShape.outer, certShape.tbs, certShape.issuer, certShape.value}
           \subseteq {"short", "x82"})
    => LET hit == {i \in FirstCn(certShape.rdns) :
                      certShape.rdns[i].tag = ASN_PRINTABLE_STRING}
       IN  IF hit = {} THEN cnBytes = NullPtr
           ELSE \A i \in hit :
                  LET text == certShape.rdns[i].text
                  IN  /\ cnBytes # NullPtr
                      /\ TheDer[cnBytes + 1] = Len(text)
                      /\ SubSeq(TheDer, cnBytes + 2, cnBytes + 1 + Len(text)) = text


\* ------------------------------------ the settings record on load (C26)

\* the values a field of the record takes here: the default and one other
FieldValues ==
    [uartBaudRate : {115200, 9600}, uartConfig : {SERIAL_8N1, 26},
     dhcpMode : {3, 1}, netConfig : {<<0, 0, 0>>, <<1, 2, 3>>},
     dnsConfig : {<<0, 0>>, <<8, 9>>}, apIpConfig : {<<0, 0, 0>>, <<4, 5, 6>>},
     maximumCertificates : {5, 2}, crc32 : {0}]
\* what the EEPROM may hold at power-on: a record with its checksum, or with
\* a checksum that does not fit
Records ==
    {Stored(d) : d \in FieldValues}
    \cup {[d EXCEPT !.crc32 = (crc32(d) + 1) % 65521] : d \in FieldValues}

\* setup() (ESP_ATMod.ino 170-340) as far as the settings go: the getters at
\* 177-203 and 239, each of which makes and destroys an EEPROMData object.
\* The file system holds no certificate file, so the store stays empty.
setup ==
    /\ pc = "setup"
    /\ LET first == EEPROMData_dtor(eeprom, EEPROMData(eeprom))
       IN  /\ data' = EEPROMData(first)
           /\ eeprom' = EEPROMData_dtor(first, EEPROMData(first))
           /\ maximumCertificates' = EEPROMData(first).maximumCertificates
    /\ pc' = "poll"
    /\ out' = <<>> /\ wr' = <<>> /\ ran' = "setup" /\ importedDer' = <<>>
    /\ UNCHANGED <<hostVars, lineCompleted, bufVars, linkVars, gsCertLoading,
                   PemCertificate, pemAllocated, CAcert, busyVars, tlsVars,
                   derVars, sslVars, serverVars, armedBytes>>

\* power-on with ee in the EEPROM: setup() has not run yet
InitPowerOn(ee) ==
    /\ tx = <<>> /\ sent = 0 /\ rx = <<>>
    /\ pc = "setup" /\ lineCompleted = FALSE
    /\ inputBuffer = <<>> /\ inputBufferCnt = 0
    /\ certShape = NoShape
    /\ eeprom = ee /\ data = NoData
    /\ maximumCertificates = 0
    /\ InitStatics(<<>>)

InitLoad == \E ee \in Records : InitPowerOn(ee)

LineCertMax3 == Str2Seq("AT+CIPSSLCERTMAX=3\r\n")

NextLoad ==
    \/ setup
    \/ HostSend({LineCertMax3})
    \/ LoopPoll
    \/ ReadCommand
    \/ LoopIdle
    \/ Do_CIPSSLCERTMAX

SpecLoad == InitLoad /\ [][NextLoad]_vars

\* the step has loaded the record, and the checksum stored with it did not
\* match
LoadedMismatch ==
    /\ \/ ran' = "setup"
       \/ ran' = "CMD_AT_CIPSSLCERTMAX" /\ out' = <<"OK">>
    /\ crc32(eeprom) # eeprom.crc32

\* C26: when the persisted record is loaded and its stored CRC32 does not
\* match the CRC of the fields before it, every field (baud rate, frame
\* config, DHCP mode, static IP config, DNS servers, AP IP config,
\* certificate capacity) has its default value before a getter returns or a
\* setter is applied.
C26_MismatchGivesDefaults ==
    [][LoadedMismatch => \A f \in Fields : data'[f] = Defaults[f]]_vars


\* ------------------------------------------- starting servers (C27)

\* multiplexing on and a server on port 80
LineListenOne == Str2Seq("AT+CIPMUX=1\r\nAT+CIPSERVER=1,80\r\n")
\* multiplexing on and a server in each of the five slots
LineListenFive ==
    Str2Seq("AT+CIPMUX=1\r\nAT+CIPSERVER=1,80\r\nAT+CIPSERVER=1,81\r\nAT+CIPSERVER=1,82\r\nAT+CIPSERVER=1,83\r\nAT+CIPSERVER=1,84\r\n")
\* a server on a port of its own, and one on the port already taken
LineListenNew == Str2Seq("AT+CIPSERVER=1,90\r\n")
LineListenSame == Str2Seq("AT+CIPSERVER=1,80\r\n")
\* a server is stopped and one is started on a port of its own
LineListenSwap == Str2Seq("AT+CIPSERVER=0,80\r\nAT+CIPSERVER=1,90\r\n")
MenuListen ==
    IF sent = 0 THEN {LineListenOne, LineListenFive}
    ELSE {LineListenNew, LineListenSame, LineListenSwap}

NextListen ==
    \/ HostSend(MenuListen)
    \/ LoopPoll
    \/ ReadCommand
    \/ LoopIdle
    \/ Do_CIPMUX
    \/ Do_CIPSERVER

SpecListen == Init /\ [][NextListen]_vars

\* the step has run AT+CIPSERVER=1,<port> with multiplexing on
StartAsked ==
    /\ ran' = "CMD_AT_CIPSERVER"
    /\ gsCipMux # 0
    /\ CIPSERVER_parse.error = 0 /\ ~CIPSERVER_parse.stop
\* the slots without a listening server
FreeServers == {j \in ServerIds : ~servers[j].open}

\* C27: AT+CIPSERVER=1,<port> starts a new listening server on <port>
\* whenever one of the five server slots is free, also when servers on other
\* ports are running (unless the socket itself could not be opened, which is
\* answered with ERROR alone); "no change" is returned only when the maximum
\* number of servers is reached.
C27_StartsWhileSlotFree ==
    [][StartAsked =>
          /\ (FreeServers # {} /\ out' # <<"ERROR">>)
                => \E j \in FreeServers :
                      servers'[j].open /\ servers'[j].port = CIPSERVER_parse.port
          /\ ("no change" \in Entries(out')) => FreeServers = {}]_vars


\* ------------------------------------------- TLS buffer sizes (C28, C29)

\* multiplexing on and a TLS connection on link 0, with the buffer size as
\* it is at start or reduced before
LineSslFirst == Str2Seq("AT+CIPMUX=1\r\nAT+CIPSTART=0,\"SSL\",\"h\",1\r\n")
LineSslSmall ==
    Str2Seq("AT+CIPMUX=1\r\nAT+CIPSSLSIZE=4096\r\nAT+CIPSTART=0,\"SSL\",\"h\",1\r\n")
\* a TLS connection on link 1, as things are or after the size has been set
\* to 16384
LineSslSecond == Str2Seq("AT+CIPSTART=1,\"SSL\",\"h\",1\r\n")
LineSslBack == Str2Seq("AT+CIPSSLSIZE=16384\r\nAT+CIPSTART=1,\"SSL\",\"h\",1\r\n")
\* the size is set while a connection may be open
LineSslSize == Str2Seq("AT+CIPSSLSIZE=512\r\n")
MenuSsl ==
    IF sent = 0 THEN {LineSslFirst, LineSslSmall}
    ELSE {LineSslSecond, LineSslBack, LineSslSize}

NextSsl ==
    \/ HostSend(MenuSsl)
    \/ LoopPoll
    \/ ReadCommand
    \/ LoopIdle
    \/ Do_CIPMUX
    \/ Do_CIPSTART
    \/ Do_CIPSSLSIZE

SpecSsl == Init /\ [][NextSsl]_vars

\* the link slots that hold a TLS connection
SslLinks == {i \in LinkIds : clients[i].client /\ clients[i].type = "TYPE_SSL"}

\* C28: with the receive-buffer size of a TLS session as it is at start
\* (16384) at most one link slot of type SSL is occupied at any time; a
\* further TLS connection is admitted only after the size has been reduced
\* with AT+CIPSSLSIZE.
C28_OneSslAtDefaultSize ==
    gsCipSslSize = 16384 => Cardinality(SslLinks) <= 1

\* the size the last accepted AT+CIPSSLSIZE=<n> has asked for, 16384 when
\* none was given: the handler keeps n = 16384 as 0
AskedSize == IF gsCipSslSize = 0 THEN 16384 ELSE gsCipSslSize
\* the step has opened a TLS connection on link i
SslOpened(i) ==
    /\ ran' = "CMD_AT_CIPSTART" /\ out' = <<"CONNECT", "OK">>
    /\ ~clients[i].client /\ clients'[i].client /\ clients'[i].type = "TYPE_SSL"

\* C29: after AT+CIPSSLSIZE=<n> has been accepted (n one of 512, 1024, 2048,
\* 4096, 16384) every TLS connection opened afterwards uses the receive-buffer
\* size n, also n = 16384 given after a smaller value, and the connections
\* already open are not affected.
C29_SizeUsedAfterwards ==
    [][/\ \A i \in LinkIds : SslOpened(i) => clients'[i].recvSize = AskedSize
       /\ ran' = "CMD_AT_CIPSSLSIZE" => clients' = clients]_vars



\* ------------------------------------------------- the serial mode (C30)

\* what loop() does with the next byte of the line (lines 491-647)
Mode(reading, loading) ==
    IF reading >= 0 THEN "SEND_DATA"
    ELSE IF loading THEN "CERT_LOAD"
    ELSE "COMMAND"

\* a send command for the link a peer has got, with one byte of its payload
LineSendPeer == Str2Seq("AT+CIPSEND=0,2\r\nx")
\* a send command with its whole payload
LineSendWhole == Str2Seq("AT+CIPSEND=0,1\r\nx")
\* a certificate load that a byte outside the alphabet ends
LineCertAbort == Str2Seq("AT+CIPSSLCERT\r\n*")
\* the host sets a server for one connection up, then arms a link or starts
\* a certificate load
MenuMode ==
    IF sent = 0 THEN {LineLimit} ELSE {LineSendPeer, LineSendWhole, LineCertAbort}

NextMode ==
    \/ HostSend(MenuMode)
    \/ PeersConnect
    \/ RemoteCloses
    \/ IdleLongs
    \/ LoopPoll
    \/ ReadSendData
    \/ ReadCertLoad
    \/ ReadCommand
    \/ LoopIdle
    \/ Do_CIPMUX
    \/ Do_CIPSERVER
    \/ Do_CIPSERVERMAXCONN
    \/ Do_CIPSEND
    \/ Do_CIPSSLCERT

SpecMode == Init /\ [][NextMode]_vars

\* the step changes the serial mode
ModeChanges ==
    Mode(gsLinkIdReading', gsCertLoading') # Mode(gsLinkIdReading, gsCertLoading)
\* the step is the dispatch of a command, and it leaves COMMAND
EntersByDispatch ==
    /\ ran' # ""
    /\ Mode(gsLinkIdReading, gsCertLoading) = "COMMAND"
\* the step has read a byte of a payload, and it goes back to COMMAND; the
\* end of a certificate load throws the rest of the FIFO away
LeavesByTransfer ==
    /\ ReadGuard /\ ran' = "" /\ rx' \in {Tail(rx), <<>>}
    /\ Mode(gsLinkIdReading', gsCertLoading') = "COMMAND"
\* the step is the poll, the armed link's remote is gone or its idle time has
\* run out, and the poll goes back from SEND_DATA to COMMAND
LeavesByRelease ==
    /\ pc = "poll" /\ pc' = "read"
    /\ gsLinkIdReading >= 0
    /\ ~clients[gsLinkIdReading].connected \/ clients[gsLinkIdReading].idle
    /\ Mode(gsLinkIdReading', gsCertLoading') = "COMMAND"

\* C30: the serial mode is COMMAND at first and changes only at two kinds of
\* event: the dispatch of a matched command, which enters SEND_DATA or
\* CERT_LOAD, and the completion of a payload transfer, which goes back to
\* COMMAND; no other event, such as a poll step, a remote close or an idle
\* timeout, changes it.
C30_ModeChangesOnlyTwoWays ==
    /\ Mode(gsLinkIdReading, gsCertLoading) = "COMMAND"
    /\ [][ModeChanges => EntersByDispatch \/ LeavesByTransfer]_vars

\* C30 as amended: the serial mode is COMMAND at first and changes only at
\* three kinds of event: the dispatch of a matched command, which enters
\* SEND_DATA or CERT_LOAD; a read step that ends or aborts a payload
\* transfer, which goes back to COMMAND; and a poll step that finds the
\* remote of the armed link gone, or its idle time run out, and releases the
\* link, which goes back from SEND_DATA to COMMAND. A remote close or an
\* idle timeout changes the mode only through that poll step.
C30_ModeChangesThreeWays ==
    /\ Mode(gsLinkIdReading, gsCertLoading) = "COMMAND"
    /\ [][ModeChanges =>
             EntersByDispatch \/ LeavesByTransfer \/ LeavesByRelease]_vars

\* the poll has released the armed link with one byte of its payload read:
\* the mode is COMMAND again, the byte still in the send buffer
C30_Witness ==
    /\ pc = "read" /\ ran = ""
    /\ \E k \in 1..Len(out) : out[k] = "CLOSED"
    /\ gsLinkIdReading = -1 /\ ~gsCertLoading
    /\ sendBuffer # <<>>


\* ------------------------------------------- the full command buffer (C31)

\* INPUT_BUFFER_LEN bytes without a line end, one byte more, and a command
LineLong ==
    [k \in 1..INPUT_BUFFER_LEN |-> "x"] \o Str2Seq("y") \o LineAt
MenuFull == IF sent = 0 THEN {LineLong, LineAt} ELSE {LineAt}

NextFull ==
    \/ HostSend(MenuFull)
    \/ LoopPoll
    \/ ReadCommand
    \/ LoopIdle
    \/ Do_AT

SpecFull == Init /\ [][NextFull]_vars

\* the step reads a byte in COMMAND mode while the command buffer is full
ReadWhileFull ==
    /\ ReadGuard /\ gsLinkIdReading < 0 /\ ~gsCertLoading
    /\ inputBufferCnt = INPUT_BUFFER_LEN
    /\ rx' = Tail(rx) /\ ran' = ""

\* C31: the command buffer never holds more than INPUT_BUFFER_LEN bytes: a
\* byte received in COMMAND mode while the buffer is full clears the buffer
\* and produces exactly one ERROR reply.
C31_FullBufferCleared ==
    /\ [](inputBufferCnt <= INPUT_BUFFER_LEN /\ Len(inputBuffer) <= INPUT_BUFFER_LEN)
    /\ [][ReadWhileFull => inputBufferCnt' = 0 /\ out' = <<"ERROR">>]_vars

\* the byte after the hundredth has been answered with ERROR: the count is 0,
\* the array still holds the hundred bytes
C31_Witness ==
    /\ out = <<"ERROR">> /\ ran = "" /\ inputBufferCnt = 0
    /\ inputBuffer = [k \in 1..INPUT_BUFFER_LEN |-> "x"]


\* ------------------------------------------- line breaks in CERT_LOAD (C32)

\* a certificate load whose text begins with a line break and has CR LF, LF
\* CR, a doubled LF and the two characters backslash and n in it
LineCertBreaks ==
    Str2Seq("AT+CIPSSLCERT\r\n\r\nA\r\nB\n\rC\n\nD\\nE\n\\nF\\")
\* more of the text: the n that belongs to the backslash, and line breaks
LineBreaksMore == Str2Seq("n\\n\r\rG\r")
LineBreaksCr == Str2Seq("\r\n\\n\\n")
MenuFold == IF sent = 0 THEN {LineCertBreaks} ELSE {LineBreaksMore, LineBreaksCr}

NextFold ==
    \/ HostSend(MenuFold)
    \/ LoopPoll
    \/ ReadCertLoad
    \/ ReadCommand
    \/ LoopIdle
    \/ Do_CIPSSLCERT

SpecFold == Init /\ [][NextFold]_vars

\* C32: in CERT_LOAD every CR is stored as LF and consecutive line breaks are
\* collapsed to one, so the accumulated PEM text never contains a CR and
\* never contains two adjacent LF bytes.
C32_NoCrNoDoubleLf ==
    /\ \A k \in 1..Len(PemCertificate) : PemCertificate[k] # "\r"
    /\ \A k \in 1..(Len(PemCertificate) - 1) :
          ~(PemCertificate[k] = "\n" /\ PemCertificate[k + 1] = "\n")

\* the text of LineCertBreaks and LineBreaksMore has been taken in: each run
\* of line breaks, written as CR, LF or backslash and n, is one LF
C32_Witness ==
    /\ gsCertLoading
    /\ PemCertificate = Str2Seq("A\nB\nC\nD\nE\nF\nG\n")


\* ------------------------------------------------- idle server links (C33)

\* multiplexing on, a connection of the module's own on link 0, at most one
\* server connection, a server on the default port
LineIdleSetup ==
    Str2Seq("AT+CIPMUX=1\r\nAT+CIPSTART=0,\"TCP\",\"h\",1\r\nAT+CIPSERVERMAXCONN=1\r\nAT+CIPSERVER=1\r\n")
\* the timeout is switched off, set to one second
LineStoOff == Str2Seq("AT+CIPSTO=0\r\n")
LineStoOne == Str2Seq("AT+CIPSTO=1\r\n")
\* the server is stopped
LineServerStop == Str2Seq("AT+CIPSERVER=0\r\n")
MenuIdle == IF sent = 0 THEN {LineIdleSetup}
            ELSE {LineStoOff, LineStoOne, LineServerStop}

NextIdle ==
    \/ HostSend(MenuIdle)
    \/ PeersConnect
    \/ RemoteCloses
    \/ RemoteDatas
    \/ IdleLongs
    \/ LoopPoll
    \/ ReadCommand
    \/ LoopIdle
    \/ Do_CIPMUX
    \/ Do_CIPSTART
    \/ Do_CIPSERVERMAXCONN
    \/ Do_CIPSERVER
    \/ Do_CIPSTO

SpecIdle == Init /\ [][NextIdle]_vars

\* the poll step takes the connection of link i away although its remote
\* end is still there
ClosedForIdleness(i) ==
    /\ PollStep
    /\ clients[i].client /\ clients[i].connected
    /\ ~clients'[i].client
\* link i was accepted by a server that listens now, the timeout is set, the
\* link holds no unread bytes and has been without activity for longer than
\* the timeout
IdleDue(i) ==
    /\ clients[i].client /\ clients[i].viaServer
    /\ \E j \in ServerIds : servers[j].open /\ servers[j].port = clients[i].localPort
    /\ gsServerConnTimeout # 0
    /\ clients[i].avail = 0
    /\ clients[i].idle

\* C33: a connection is force-closed for idleness, with a CLOSED notification
\* and release of its slot, exactly when it was accepted by a currently
\* listening server, the timeout set with AT+CIPSTO is non-zero, it holds no
\* unread bytes and no activity occurred on it for longer than that timeout;
\* connections opened with AT+CIPSTART are never closed for idleness.  A poll
\* that cannot print leaves every link as it is.
C33_IdleCloseExactly ==
    [][\A i \in LinkIds :
          /\ ClosedForIdleness(i) =>
                IdleDue(i) /\ \E k \in 1..Len(out') : out'[k] = "CLOSED"
          /\ PollStep /\ clients[i].connected /\ IdleDue(i) =>
                ~clients'[i].client \/ (clients' = clients /\ out' = <<>>)
          /\ ClosedForIdleness(i) => clients[i].viaServer]_vars

\* the poll has closed an idle server link and left the idle link of the
\* module's own open
C33_Witness ==
    /\ pc = "read" /\ out = <<"CLOSED">>
    /\ clients[0].client /\ ~clients[0].viaServer /\ clients[0].idle
    /\ clients[0].connected
    /\ ~clients[1].client
    /\ gsServerConnTimeout = 1000


\* ------------------------------------------------------- readNumber (C34)

\* the bytes the argument is made of, and the arguments of up to three bytes
NumberBytes == {"0", "1", "9", "x"}
ShortTexts ==
    UNION {[1..n -> NumberBytes] : n \in 1..3}
\* longer digit runs: the timeout limit and the next number, 2^32 - 1,
\* 2^32 + 1, a run with leading zeros
LongTexts ==
    {Str2Seq("7200"), Str2Seq("7201"), Str2Seq("4294967295"),
     Str2Seq("4294967297"), Str2Seq("00000000019")}
NumberTexts == ShortTexts \cup LongTexts

\* loop() has read the line AT+CIPSTO=<text> into the input buffer
InitNumber ==
    \E text \in NumberTexts :
        LET line == Str2Seq("AT+CIPSTO=") \o text \o Str2Seq("\r\n")
        IN  /\ tx = <<>> /\ sent = 1 /\ rx = <<>>
            /\ pc = "cmd" /\ lineCompleted = TRUE
            /\ inputBuffer = line /\ inputBufferCnt = Len(line)
            /\ certShape = NoShape
            /\ InitGlobals(<<>>, StartMaxCerts)

NextNumber == Do_CIPSTO

SpecNumber == InitNumber /\ [][NextNumber]_vars

\* the length of the longest run of digits in buf from offset on
RECURSIVE DigitRun(_, _)
DigitRun(buf, offset) ==
    IF At(buf, offset) \in Digits THEN 1 + DigitRun(buf, offset + 1) ELSE 0
\* a digit string without its leading zeros; "0" for a run of zeros
RECURSIVE StripZeros(_)
StripZeros(s) ==
    IF Len(s) > 1 /\ Head(s) = "0" THEN StripZeros(Tail(s)) ELSE s
\* the decimal digits of a 32-bit value kept as two halves
RECURSIVE U32Decimal(_)
U32Decimal(v) ==
    LET low == (v.hi % 10) * U16 + v.lo
        q == [hi |-> v.hi \div 10, lo |-> low \div 10]
        d == <<DigitSeq[(low % 10) + 1]>>
    IN  IF q.hi = 0 /\ q.lo = 0 THEN d ELSE U32Decimal(q) \o d
\* the handler has run on the line in the input buffer
NumberRead == ran = "CMD_AT_CIPSTO"

\* C34: readNumber succeeds exactly when the byte at the cursor is an ASCII
\* digit; on success the output equals the decimal value of the maximal digit
\* run and the cursor points to the first byte after the run, for digit runs
\* of any length; on failure the cursor and the output are unchanged.
C34_ReadNumberDecimal ==
    NumberRead =>
       LET r == readNumberLoop(inputBuffer, 10, U32Zero, FALSE)
           n == DigitRun(inputBuffer, 10)
           call == readNumber(inputBuffer, 10, 5)
       IN  /\ call.ret <=> At(inputBuffer, 10) \in Digits
           /\ call.ret =>
                 /\ call.offset = 10 + n
                 /\ U32Decimal(r.out) = StripZeros(SubSeq(inputBuffer, 11, 10 + n))
           /\ ~call.ret => call.offset = 10 /\ call.output = 5

\* the part of C34 that holds: success, cursor, and the value of a run that
\* fits in 32 bits
C34_ShortRuns ==
    NumberRead =>
       LET r == readNumberLoop(inputBuffer, 10, U32Zero, FALSE)
           n == DigitRun(inputBuffer, 10)
           call == readNumber(inputBuffer, 10, 5)
       IN  /\ call.ret <=> At(inputBuffer, 10) \in Digits
           /\ call.ret => call.offset = 10 + n
           /\ call.ret /\ n <= 9 =>
                 U32Decimal(r.out) = StripZeros(SubSeq(inputBuffer, 11, 10 + n))
           /\ ~call.ret => call.offset = 10 /\ call.output = 5

\* AT+CIPSTO=4294967297 has been answered OK and the timeout is one second
C34_WrapAccepted ==
    /\ NumberRead /\ out = <<"OK">>
    /\ DigitRun(inputBuffer, 10) = 10
    /\ gsServerConnTimeout = 1000


\* --------------------------------------------- link ids past the table (C35)

\* the four commands with link id 5, AT+CIPCLOSE with 6, a send on link 0
LineSendFive == Str2Seq("AT+CIPSEND=5,1\r\nx")
LineRecvFive == Str2Seq("AT+CIPRECVDATA=5,1\r\n")
LineCloseFive == Str2Seq("AT+CIPCLOSE=5\r\n")
LineCloseSix == Str2Seq("AT+CIPCLOSE=6\r\n")
LineStartPast == Str2Seq("AT+CIPSTART=5,\"TCP\",\"h\",1\r\n")
LineSendZero == Str2Seq("AT+CIPSEND=0,1\r\nx")
MenuRange == IF sent = 0 THEN {LineMuxStart}
             ELSE {LineSendFive, LineRecvFive, LineCloseFive, LineCloseSix,
                   LineStartPast, LineSendZero}

NextRange ==
    \/ HostSend(MenuRange)
    \/ RemoteDatas
    \/ RemoteCloses
    \/ LoopPoll
    \/ ReadSendData
    \/ ReadCommand
    \/ LoopIdle
    \/ Do_CIPMUX
    \/ Do_CIPSTART
    \/ Do_CIPSEND
    \/ Do_CIPRECVDATA
    \/ Do_CIPCLOSE

SpecRange == Init /\ [][NextRange]_vars

\* the handler that runs in this step goes to the connection table with
\* index id
UsesSlot(id) ==
    \/ ran' = "CMD_AT_CIPSTART" /\ CIPSTART_parse.error = 0 /\ CIPSTART_parse.linkID = id
    \/ ran' = "CMD_AT_CIPSEND" /\ CIPSEND_link.ok /\ CIPSEND_link.linkId = id
    \/ ran' = "CMD_AT_CIPRECVDATA" /\ CIPRECVDATA_link.ok /\ CIPRECVDATA_link.linkId = id
    \/ /\ ran' = "CMD_AT_CIPCLOSE" /\ CIPCLOSE_parse.ok
       /\ CIPCLOSE_parse.linkId \in {id, 5} /\ id \in LinkIds

\* C35: every access to the connection table uses an index in 0..4: a link
\* id outside 0..4 given to AT+CIPSTART, AT+CIPSEND, AT+CIPRECVDATA or
\* AT+CIPCLOSE is rejected (or, for AT+CIPCLOSE=5, handled as 'close all')
\* before any slot is read or written; so the link armed for a transfer is
\* one of 0..4 as well.
C35_LinkIdInTable ==
    /\ [](gsLinkIdReading \in {-1} \cup LinkIds)
    /\ [][\A id \in 0..9 : UsesSlot(id) => id \in LinkIds]_vars


\* ------------------------------------------ the armed link and its slot (C36)

\* the armed link is a slot of the table and the slot holds a connection
\* object
ArmedSlotHeld ==
    IF gsLinkIdReading \in LinkIds THEN clients[gsLinkIdReading].client
    ELSE gsLinkIdReading = -1

\* C36: whenever a link L is armed for SEND_DATA, slot L holds a connection
\* object: releasing slot L by any path (remote close or idle timeout
\* detected by the poll, close command) disarms the link in the same step, so
\* the payload write at the end of SEND_DATA never targets an empty slot.
C36_ArmedSlotHeld ==
    /\ ArmedSlotHeld
    /\ \A k \in 1..Len(wr) : wr[k].object

\* the part of C36 that holds: an armed link of the table has its connection
\* object, and every payload write goes to one
C36_ArmedInTableHeld ==
    /\ gsLinkIdReading \in LinkIds => clients[gsLinkIdReading].client
    /\ \A k \in 1..Len(wr) : wr[k].object


\* ------------------------------------- TLS prerequisites at AT+CIPSTART (C37)

\* fingerprint verification is chosen, with and without a fingerprint
LineAuthFp ==
    Str2Seq("AT+CIPSSLFP=\"00112233445566778899aAbBcCdDeEfF01234567\"\r\nAT+CIPSSLAUTH=1\r\n")
\* the host sets the authentication up, or not, and asks for a TLS connection
MenuTls == IF sent = 0
           THEN {LineAuthDelete, LineAuth2, LineAuth1, LineAuthFp, LineStartSsl}
           ELSE {LineStartSsl}

NextTls ==
    \/ HostSend(MenuTls)
    \/ LoopPoll
    \/ ReadCommand
    \/ LoopIdle
    \/ Do_CIPSTART
    \/ Do_CIPSSLAUTH
    \/ Do_CIPSSLFP
    \/ Do_CIPSSLCERT

SpecTls == InitStart /\ [][NextTls]_vars

\* the authentication mode is NONE, or FINGERPRINT with a valid fingerprint,
\* or CHAIN with a certificate in the store
TlsReady ==
    \/ gsCipSslAuth = 0
    \/ gsCipSslAuth = 1 /\ fingerprintValid
    \/ gsCipSslAuth = 2 /\ CAcert # <<>>
\* AT+CIPSTART for a TLS connection runs in this step and returns
SslStartRuns ==
    /\ ran' = "CMD_AT_CIPSTART" /\ pc' # "halted"
    /\ CIPSTART_parse.error = 0 /\ CIPSTART_parse.type = "TYPE_SSL"
\* the step puts a TLS connection into a slot
SslLinkMade ==
    \E i \in LinkIds : ~clients[i].client /\ clients'[i].client /\ clients'[i].type = "TYPE_SSL"

\* C37: an SSL link is created only if, at the moment AT+CIPSTART runs, the
\* authentication mode is NONE, or FINGERPRINT with a valid fingerprint, or
\* CHAIN with a non-empty certificate store, also when the store was emptied
\* by deletions after the mode was set; otherwise the command fails with
\* ERROR and no connection is attempted.
C37_SslNeedsPrerequisite ==
    [][/\ SslLinkMade => TlsReady
       /\ SslStartRuns /\ ~TlsReady =>
             /\ out'[Len(out')] = "ERROR"
             /\ \A k \in 1..Len(out') : out'[k] \notin {"DNS Fail", "connect fail", "CONNECT"}
             /\ clients' = clients]_vars

\* chain verification was chosen, the store emptied afterwards, and the TLS
\* connection has been refused
C37_Witness ==
    /\ ran = "CMD_AT_CIPSTART" /\ out = <<"ERROR">>
    /\ gsCipSslAuth = 2 /\ CAcert = <<>>
    /\ \A i \in LinkIds : ~clients[i].client


\* ------------------------------------------------ multiplexing mode (C38)

\* multiplexing on and a connection on link 1
LineMuxOne == Str2Seq("AT+CIPMUX=1\r\nAT+CIPSTART=1,\"TCP\",\"h\",1\r\n")
\* the mode is set, alone, after the server has been stopped, after every
\* link has been closed
LineMuxOff == Str2Seq("AT+CIPMUX=0\r\n")
LineMuxOn == Str2Seq("AT+CIPMUX=1\r\n")
LineStopMuxOff == Str2Seq("AT+CIPSERVER=0\r\nAT+CIPMUX=0\r\n")
LineCloseMuxOff == Str2Seq("AT+CIPCLOSE=5\r\nAT+CIPMUX=0\r\n")
\* a link and a server are asked for, whatever the mode
LineServerOn == Str2Seq("AT+CIPSERVER=1\r\n")
MenuMux ==
    IF sent = 0 THEN {LineStart, LineMuxOne, LineLimit}
    ELSE {LineMuxOff, LineMuxOn, LineStopMuxOff, LineCloseMuxOff, LineServerOn,
          LineStartMux0}

NextMux ==
    \/ HostSend(MenuMux)
    \/ PeersConnect
    \/ RemoteCloses
    \/ LoopPoll
    \/ ReadCommand
    \/ LoopIdle
    \/ Do_CIPMUX
    \/ Do_CIPSTART
    \/ Do_CIPSERVERMAXCONN
    \/ Do_CIPSERVER
    \/ Do_CIPCLOSE

SpecMux == Init /\ [][NextMux]_vars

\* a link is open, a server is running
SomeLink == \E i \in LinkIds : clients[i].client
SomeServer == \E j \in ServerIds : servers[j].open
\* the step runs AT+CIPMUX=<mode>
MuxAsked == ran' = "CMD_AT_CIPMUX" /\ At(inputBuffer, 9) = "="

\* C38: while multiplexing is off (CIPMUX=0) only link slot 0 can be occupied
\* and no server is listening; AT+CIPMUX changes the multiplexing mode only
\* when no link is open and no server is running, and otherwise replies ERROR
\* leaving the mode unchanged.
C38_MuxOffOneLinkNoServer ==
    /\ [](gsCipMux = 0 => ~SomeServer /\ \A i \in 1..4 : ~clients[i].client)
    /\ [][/\ gsCipMux' # gsCipMux =>
                MuxAsked /\ ~SomeLink /\ ~SomeServer /\ out' = <<"OK">>
          /\ MuxAsked /\ (SomeLink \/ SomeServer) =>
                out'[Len(out')] = "ERROR" /\ gsCipMux' = gsCipMux]_vars

\* AT+CIPMUX=0 has been refused for the running server, no link open
C38_Witness ==
    /\ ran = "CMD_AT_CIPMUX" /\ out = <<"CIPSERVER must be 0", "ERROR">>
    /\ gsCipMux = 1 /\ SomeServer /\ ~SomeLink


\* ------------------------------------ writes into the load buffer (C39)

\* a load whose text ends with the end marker and is n bytes long
LineCertOf(n) ==
    LineCert \o [k \in 1..(n - Len(EndMarker)) |-> "A"] \o EndMarker
\* the text is one byte shorter than the buffer, as long as the buffer, one
\* byte longer
LineCertBelow == LineCertOf(MAX_PEM_CERT_LENGTH - 1)
LineCertExact == LineCertOf(MAX_PEM_CERT_LENGTH)
LineCertAbove == LineCertOf(MAX_PEM_CERT_LENGTH + 1)
\* what the host sends after the load
LineAfter == Str2Seq("A-")
MenuWrite == IF sent = 0 THEN {LineCertBelow, LineCertExact, LineCertAbove}
             ELSE {LineAfter, LineAt}

NextWrite ==
    \/ HostSend(MenuWrite)
    \/ LoopPoll
    \/ ReadCertLoad
    \/ ReadCommand
    \/ LoopIdle
    \/ Do_AT
    \/ Do_CIPSSLCERT

SpecWrite == Init /\ [][NextWrite]_vars

\* the indices of PemCertificate the CERT_LOAD step writes for the byte at
\* the head of the FIFO: the byte itself at PemCertificatePos (line 548) and
\* the NUL behind it when the end marker is found (line 556)
CertWrites ==
    LET c == Head(rx)
        f == PemFold(c, PemCertificate)
        pem == Append(f.pem, f.c)
    IN  IF PemAllowed(c) /\ PemStored(f)
        THEN {Len(f.pem)} \cup (IF PemAtEnd(f.c, pem) THEN {Len(pem)} ELSE {})
        ELSE {}
\* the step is one of CERT_LOAD
CertLoadStep == ReadGuard /\ gsLinkIdReading < 0 /\ gsCertLoading /\ rx' # rx

\* C39: every write into the certificate load buffer, including the
\* terminating NUL written when the end marker is found, is at an index below
\* MAX_PEM_CERT_LENGTH, the allocated size of the buffer.
C39_WritesInsideBuffer ==
    [][CertLoadStep => \A i \in CertWrites : i < MAX_PEM_CERT_LENGTH]_vars


\* ------------------------------------------- passive receive mode (C40)

\* passive mode and a connection, multiplexing off
LinePassive == Str2Seq("AT+CIPRECVMODE=1\r\nAT+CIPSTART=\"TCP\",\"h\",1\r\n")
\* the host asks for one unread byte, goes back to active mode
LineRecvOne == Str2Seq("AT+CIPRECVDATA=1\r\n")
LineActive == Str2Seq("AT+CIPRECVMODE=0\r\n")
MenuPassive == IF sent = 0 THEN {LinePassive} ELSE {LineRecvOne, LineActive}

NextPassive ==
    \/ HostSend(MenuPassive)
    \/ RemoteDatas
    \/ RemoteCloses
    \/ LoopPoll
    \/ ReadCommand
    \/ LoopIdle
    \/ Do_CIPRECVMODE
    \/ Do_CIPSTART
    \/ Do_CIPRECVDATA

SpecPassive == Init /\ [][NextPassive]_vars

\* C40: in passive receive mode the recorded last-available count of a link
\* never exceeds the number of unread bytes actually held by the connection:
\* AT+CIPRECVDATA never subtracts more than the recorded count (the 16-bit
\* counter never wraps below zero), so every later increase of available data
\* produces a +IPD notification.
C40_CountWithinUnread ==
    /\ [](gsCipRecvMode = 1 =>
             \A i \in LinkIds :
                clients[i].client => clients[i].lastAvailableBytes <= clients[i].avail)
    /\ [][gsCipRecvMode = 1 /\ ran' = "CMD_AT_CIPRECVDATA" =>
             \A i \in LinkIds :
                clients'[i].lastAvailableBytes <= clients[i].lastAvailableBytes]_vars

====
